---------------------------- MODULE Spec2Model ----------------------------
(***************************************************************************)
(* Model of the settlement-report pipeline of shivxmr/backend:             *)
(*   main.py        find_column, clean_string_values,                      *)
(*                  case_insensitive_replace, process_payment_report,      *)
(*                  create_exemplar_report                                 *)
(*   processing.py  categorize_transactions, process_empty_orders,         *)
(*                  perform_tolerance_analysis, calculate_tolerance        *)
(*                                                                         *)
(* A pandas DataFrame is a record [columns, dtype, rows]: the column       *)
(* labels in order, the dtype of every column, and the rows in order, a    *)
(* row being a function from column label to cell.  A cell is NaN, a       *)
(* string or a number.  A call either returns a value or raises.           *)
(***************************************************************************)
EXTENDS Integers, Sequences, FiniteSets, TLC

VARIABLES
    pc,                   \* which call of the component under check has run
    payment_data,         \* main.py: the payment report as read by pd.read_csv
    processed_payment,    \* result of process_payment_report(payment_data)
    reprocessed_payment,  \* result of process_payment_report on that result
    mtr_df,               \* create_exemplar_report: the processed MTR segment
    payment_df,           \* create_exemplar_report: the processed payment segment
    exemplar_report,      \* result of create_exemplar_report(mtr_df, payment_df)
    merged_df,            \* categorize_transactions: its input table
    categorized_df,       \* result of categorize_transactions(merged_df)
    tolerance_df,         \* perform_tolerance_analysis: its input table
    processed_id_mapping, \* perform_tolerance_analysis: order_id -> processed id
    tolerance_analysis,   \* rows of table tolerance_analysis added by the call
    empty_df,             \* process_empty_orders: its input table
    empty_order_summary,  \* rows of table empty_order_summary added by the call
    mtr_data,             \* process_mtr_report: the MTR report read
    processed_mtr,        \* result of process_mtr_report(mtr_data)
    exemplar_file,        \* insert_exemplar_data: the table in the spreadsheet
    commit_ok,            \* insert_exemplar_data: the commits the database accepts
    inserted,             \* result of insert_exemplar_data(file_path)
    requests,             \* upload_files: the requests being served
    deployment,           \* upload_files: requests in one process or in several
    upload_pc,            \* upload_files: each request's position in the handler
    uploaded,             \* upload_files: each request's two reports
    local,                \* upload_files: each request's local tables
    files,                \* the files of the output directory
    written,              \* upload_files: the files each request has written
    persisted,            \* the rows of each table committed by each request
    db_ok,                \* which commits of each request the database accepts
    stages,               \* the stages each request has run, in order
    response,             \* upload_files: each request's response
    store_df,             \* store_merged_data: its input table
    nan_objects,          \* whether the missing cells of a table are one object
    id_sequence,          \* the last id generated in each table
    order_id_mapping,     \* result of store_merged_data(store_df)
    processed_data        \* rows of table processed_data added by the call

vars == <<pc, payment_data, processed_payment, reprocessed_payment,
          mtr_df, payment_df, exemplar_report, merged_df, categorized_df,
          tolerance_df, processed_id_mapping, tolerance_analysis,
          empty_df, empty_order_summary,
          mtr_data, processed_mtr,
          exemplar_file, commit_ok, inserted,
          requests, deployment, upload_pc, uploaded, local, files, written, persisted, db_ok, stages, response,
          store_df, nan_objects, id_sequence, order_id_mapping, processed_data>>

paymentVars    == <<payment_data, processed_payment, reprocessed_payment>>
exemplarVars   == <<mtr_df, payment_df, exemplar_report>>
categorizeVars == <<merged_df, categorized_df>>
toleranceVars  == <<tolerance_df, processed_id_mapping, tolerance_analysis>>
emptyVars      == <<empty_df, empty_order_summary>>
mtrVars == <<mtr_data, processed_mtr>>
insertVars == <<exemplar_file, commit_ok, inserted>>
uploadVars == <<requests, deployment, upload_pc, uploaded, local, files, written, persisted, db_ok, stages, response>>
storeVars == <<store_df, nan_objects, id_sequence, order_id_mapping, processed_data>>

\* Initially, the variables of a component that is not the one under check.
PaymentIdle ==
    payment_data = <<>> /\ processed_payment = <<>> /\ reprocessed_payment = <<>>
ExemplarIdle ==
    mtr_df = <<>> /\ payment_df = <<>> /\ exemplar_report = <<>>
CategorizeIdle ==
    merged_df = <<>> /\ categorized_df = <<>>
ToleranceIdle ==
    tolerance_df = <<>> /\ processed_id_mapping = <<>> /\ tolerance_analysis = <<>>
EmptyIdle ==
    empty_df = <<>> /\ empty_order_summary = <<>>
MtrIdle ==
    mtr_data = <<>> /\ processed_mtr = <<>>
InsertIdle ==
    exemplar_file = <<>> /\ commit_ok = <<>> /\ inserted = <<>>
UploadIdle ==
    requests = <<>> /\ deployment = <<>> /\ upload_pc = <<>> /\ uploaded = <<>> /\ local = <<>> /\ files = <<>> /\ written = <<>> /\ persisted = <<>> /\ db_ok = <<>> /\ stages = <<>> /\ response = <<>>
StoreIdle ==
    /\ store_df = <<>> /\ nan_objects = <<>> /\ id_sequence = <<>>
    /\ order_id_mapping = <<>> /\ processed_data = <<>>

(***************************************************************************)
(* Cells, strings                                                          *)
(***************************************************************************)
NaN == <<>>
Str(s) == <<"s", s>>
Num(n) == <<"n", n>>
isna(c) == c = NaN
notna(c) == c # NaN
is_str(c) == c # NaN /\ c[1] = "s"
is_num(c) == c # NaN /\ c[1] = "n"
val(c) == c[2]

\* The value of a result variable before the call that sets it.
NotCalled == [ok |-> FALSE, err |-> "not called"]
Return(v) == [ok |-> TRUE, value |-> v]
Raise(e) == [ok |-> FALSE, err |-> e]

Range(s) == {s[i] : i \in DOMAIN s}
SetMin(S) == CHOOSE x \in S : \A y \in S : x <= y
SetMax(S) == CHOOSE x \in S : \A y \in S : x >= y

\* The j-th smallest element of a set of numbers.
Nth(S, j) == CHOOSE x \in S : Cardinality({y \in S : y <= x}) = j

CharAt(s, i) == SubSeq(s, i, i)
Whitespace == {" ", "\t", "\n"}

\* str.lower() on one character (the letters the model's strings use).
LowerChar(c) ==
    CASE c = "A" -> "a" [] c = "B" -> "b" [] c = "C" -> "c" [] c = "D" -> "d"
      [] c = "E" -> "e" [] c = "F" -> "f" [] c = "G" -> "g" [] c = "H" -> "h"
      [] c = "I" -> "i" [] c = "J" -> "j" [] c = "K" -> "k" [] c = "L" -> "l"
      [] c = "M" -> "m" [] c = "N" -> "n" [] c = "O" -> "o" [] c = "P" -> "p"
      [] c = "Q" -> "q" [] c = "R" -> "r" [] c = "S" -> "s" [] c = "T" -> "t"
      [] c = "U" -> "u" [] c = "V" -> "v" [] c = "W" -> "w" [] c = "X" -> "x"
      [] c = "Y" -> "y" [] c = "Z" -> "z" [] OTHER -> c

RECURSIVE lower(_)
lower(s) ==
    IF Len(s) = 0 THEN ""
    ELSE LowerChar(CharAt(s, 1)) \o lower(SubSeq(s, 2, Len(s)))

\* str.strip(): leading and trailing whitespace removed.
strip(s) ==
    LET keep == {i \in 1..Len(s) : CharAt(s, i) \notin Whitespace}
    IN  IF keep = {} THEN "" ELSE SubSeq(s, SetMin(keep), SetMax(keep))

\* str.contains(pat) for a pattern without regex metacharacters.
contains(s, pat) ==
    \E i \in 1..(Len(s) - Len(pat) + 1) : SubSeq(s, i, i + Len(pat) - 1) = pat

(***************************************************************************)
(* DataFrames                                                              *)
(***************************************************************************)
\* pd.read_csv / pd.read_excel type inference: a column holding a string is
\* object, as is every column of a table without rows; a column of numbers
\* and blanks only is float64.
InferDtype(columns, rows) ==
    [c \in Range(columns) |->
        IF Len(rows) = 0 \/ \E i \in DOMAIN rows : is_str(rows[i][c])
        THEN "object" ELSE "float64"]

DataFrame(columns, rows) ==
    [columns |-> columns, dtype |-> InferDtype(columns, rows), rows |-> rows]

\* Series.str: the accessor exists for object columns only.
HasStrAccessor(df, col) == df.dtype[col] = "object"

\* All sequences over S of length at most n.
SeqsUpTo(S, n) == UNION {[1..k -> S] : k \in 0..n}

\* The sequence <<F(1), ..., F(n)>>.
RECURSIVE Build(_, _, _)
Build(F(_), i, n) == IF i > n THEN <<>> ELSE <<F(i)>> \o Build(F, i + 1, n)

\* df[col]
Column(rows, col) == Build(LAMBDA i : rows[i][col], 1, Len(rows))

\* df[col] = series
SetColumn(rows, col, series) ==
    Build(LAMBDA i : [rows[i] EXCEPT ![col] = series[i]], 1, Len(rows))

\* Series.str.lower(): NaN for a cell that is not a string.
str_lower(series) ==
    Build(LAMBDA i : IF is_str(series[i]) THEN Str(lower(val(series[i]))) ELSE NaN,
          1, Len(series))

(***************************************************************************)
(* main.py: the payment report normalizer                                  *)
(***************************************************************************)
None == NaN

\* A variant that keeps scanning and returns the last matching column.
find_column_LastMatch(columns, possible_names) ==
    LET names == {lower(possible_names[k]) : k \in DOMAIN possible_names}
        hits  == {i \in DOMAIN columns : lower(columns[i]) \in names}
    IN  IF hits = {} THEN None ELSE Str(columns[SetMax(hits)])

\* The first column, in column order, whose lowercase is the lowercase of one
\* of the names; None when there is none.
find_column(columns, possible_names) ==
    LET names == {lower(possible_names[k]) : k \in DOMAIN possible_names}
        hits  == {i \in DOMAIN columns : lower(columns[i]) \in names}
    IN  IF hits = {} THEN None ELSE Str(columns[SetMin(hits)])

\* Series.str.strip(): NaN for a cell that is not a string.
str_strip(cell) == IF is_str(cell) THEN Str(strip(val(cell))) ELSE NaN

clean_string_values(df) ==
    [df EXCEPT !.rows =
        Build(LAMBDA i : [c \in Range(df.columns) |->
                             IF df.dtype[c] = "object"
                             THEN str_strip(df.rows[i][c]) ELSE df.rows[i][c]],
              1, Len(df.rows))]

\* Line 74: the mapping with its keys lower-cased, in the mapping's order.
MappingLower(mapping) ==
    Build(LAMBDA k : <<lower(mapping[k][1]), mapping[k][2]>>, 1, Len(mapping))

\* Lines 77-81: the loop over mapping_lower from its k-th item on; every mask
\* is taken on the lower-cased input series.
RECURSIVE ReplaceFrom(_, _, _, _)
ReplaceFrom(series_lower, new_series, mapping_lower, k) ==
    IF k > Len(mapping_lower) THEN new_series
    ELSE LET old_val_lower == Str(mapping_lower[k][1])
             new_val == Str(mapping_lower[k][2])
         IN  ReplaceFrom(series_lower,
                         Build(LAMBDA i : IF series_lower[i] = old_val_lower
                                          THEN new_val ELSE new_series[i],
                               1, Len(new_series)),
                         mapping_lower, k + 1)

\* A replacement that compares the values as they are, casing included.
case_sensitive_replace(series, mapping) ==
    ReplaceFrom(series, series, mapping, 1)

case_insensitive_replace(series, mapping) ==
    ReplaceFrom(str_lower(series), series, MappingLower(mapping), 1)

type_mapping ==
    << <<"Refund", "Return">>,
       <<"Adjustment", "Order">>,
       <<"FBA Inventory Fee", "Order">>,
       <<"Fulfilment Fee Refund", "Order">>,
       <<"Service Fee", "Order">> >>

desc_mapping ==
    << <<"Adjustment", "Order">>,
       <<"FBA Inventory Fee", "Order">>,
       <<"Fulfillment Fee Refund", "Order">>,
       <<"Service Fee", "Order">>,
       <<"FBA Inventory Reimbursement - Customer Service Issue", "Order">> >>

\* A transfer filter that drops only the rows whose type is "transfer" itself.
IsTransferRow_WholeValue(row, type_col) ==
    is_str(row[type_col]) /\ lower(val(row[type_col])) = "transfer"

\* Line 108: the rows the transfer filter drops.
IsTransferRow(row, type_col) ==
    is_str(row[type_col]) /\ contains(lower(val(row[type_col])), "transfer")

\* Lines 135-136: a type that is still "refund" in some casing becomes Return.
HandleRefunds(series) ==
    LET refund_count == Build(LAMBDA i : str_lower(series)[i] = Str("refund"),
                              1, Len(series))
    IN  Build(LAMBDA i : IF refund_count[i] THEN Str("Return") ELSE series[i],
              1, Len(series))

\* Lines 140-144: the type column renamed to "Payment Type", then the column
\* "Transaction Type" set to "Payment" (appended when the table has none).
\* Column labels are taken to be distinct.
RenameAndTag(df, rows, type_col) ==
    LET renamed(c) == IF c = type_col THEN "Payment Type" ELSE c
        cols1 == [k \in DOMAIN df.columns |-> renamed(df.columns[k])]
        cols2 == IF "Transaction Type" \in Range(cols1) THEN cols1
                 ELSE Append(cols1, "Transaction Type")
        source(c) == IF c = "Payment Type" THEN type_col ELSE c
    IN  [columns |-> cols2,
         dtype |-> [c \in Range(cols2) |->
                       IF c = "Transaction Type" THEN "object"
                       ELSE df.dtype[source(c)]],
         rows |-> Build(LAMBDA i : [c \in Range(cols2) |->
                                       IF c = "Transaction Type" THEN Str("Payment")
                                       ELSE rows[i][source(c)]],
                        1, Len(rows))]

process_payment_report(data) ==
    LET df == clean_string_values(data)
        type_col == find_column(df.columns, <<"type", "Type", "TYPE">>)
        desc_col == find_column(df.columns,
                                <<"description", "Description", "DESCRIPTION">>)
    IN  IF type_col = None \/ desc_col = None
        THEN Raise("ValueError: Required columns not found in payment report")
        ELSE IF ~HasStrAccessor(df, val(type_col)) \/ ~HasStrAccessor(df, val(desc_col))
        THEN Raise("AttributeError: Can only use .str accessor with string values")
        ELSE LET tc == val(type_col)
                 dc == val(desc_col)
                 kept  == SelectSeq(df.rows, LAMBDA r : ~IsTransferRow(r, tc))
                 rows1 == SetColumn(kept, tc,
                              case_insensitive_replace(Column(kept, tc), type_mapping))
                 rows2 == SetColumn(rows1, dc,
                              case_insensitive_replace(Column(rows1, dc), desc_mapping))
                 rows3 == SetColumn(rows2, tc, HandleRefunds(Column(rows2, tc)))
             IN  Return(RenameAndTag(df, rows3, tc))

(***************************************************************************)
(* Inputs of the payment normalizer                                        *)
(***************************************************************************)
MaxPaymentRows == 2

PaymentSchemas ==
    { <<"type", "description", "order id">>,
      <<"order id", "DESCRIPTION", "Type">>,
      <<"description", "order id">>,
      <<"type", "order id">> }

TypeValues ==
    {NaN, Str(" REFUND\n"), Str("Bank TRANSFER"), Str("adjustment"), Str("Order")}

DescriptionValues ==
    {NaN, Str(" X "), Str("SERVICE FEE"), Str("Refund")}

\* The order id of the i-th row of a report: distinct from row to row, with
\* surrounding whitespace on the odd rows.
OrderIdAt(i) ==
    LET digit == SubSeq("123456789", i, i)
    IN  IF i % 2 = 1 THEN Str(" A" \o digit \o " ") ELSE Str("B" \o digit)

\* The reports with the given columns and n rows: in row i a type from
\* TypeValues, a description from DescriptionValues, the order id OrderIdAt(i).
PaymentRows(columns, n) ==
    LET has(name) == \E k \in DOMAIN columns : lower(columns[k]) = name
        types == IF has("type") THEN TypeValues ELSE {NaN}
        descriptions == IF has("description") THEN DescriptionValues ELSE {NaN}
    IN  { [i \in 1..n |->
              [c \in Range(columns) |->
                  IF lower(c) = "type" THEN t[i]
                  ELSE IF lower(c) = "description" THEN d[i] ELSE OrderIdAt(i)]] :
          t \in [1..n -> types], d \in [1..n -> descriptions] }

InitPayment ==
    /\ pc = "payment"
    /\ \E columns \in PaymentSchemas :
         \E n \in 0..MaxPaymentRows :
            \E rows \in PaymentRows(columns, n) :
               payment_data = DataFrame(columns, rows)
    /\ processed_payment = NotCalled
    /\ reprocessed_payment = NotCalled
    /\ ExemplarIdle /\ CategorizeIdle /\ ToleranceIdle /\ EmptyIdle /\ MtrIdle /\ InsertIdle /\ UploadIdle /\ StoreIdle

\* upload_files, line 266: processed_payment = process_payment_report(payment_data)
ProcessPayment ==
    /\ pc = "payment"
    /\ processed_payment' = process_payment_report(payment_data)
    /\ pc' = "payment processed"
    /\ UNCHANGED <<payment_data, reprocessed_payment, exemplarVars,
                   categorizeVars, toleranceVars, emptyVars,
                   mtrVars,
                   insertVars,
                   uploadVars, storeVars>>

\* Normalization applied again, to the table the first call returned.
ReprocessPayment ==
    /\ pc = "payment processed"
    /\ processed_payment.ok
    /\ reprocessed_payment' = process_payment_report(processed_payment.value)
    /\ pc' = "payment reprocessed"
    /\ UNCHANGED <<payment_data, processed_payment, exemplarVars,
                   categorizeVars, toleranceVars, emptyVars,
                   mtrVars,
                   insertVars,
                   uploadVars, storeVars>>

NextPayment == ProcessPayment \/ ReprocessPayment

SpecPayment == InitPayment /\ [][NextPayment]_vars

(***************************************************************************)
(* main.py: the MTR report normalizer                                      *)
(***************************************************************************)
\* A Cancel test that ignores casing and surrounding whitespace.
IsCancel_Normalized(cell) ==
    is_str(cell) /\ lower(strip(val(cell))) = "cancel"

\* Line 163: the rows the filter drops hold the string "Cancel" itself.
IsCancel(cell) == cell = Str("Cancel")

transaction_mapping ==
    << <<"Refund", "Return">>,
       <<"FreeReplacement", "Return">> >>

\* Line 173, Series.replace(mapping): a cell equal to a key becomes the key's
\* value, every other cell stays.
Replace(series, mapping) ==
    Build(LAMBDA i : IF \E k \in DOMAIN mapping : series[i] = Str(mapping[k][1])
                     THEN LET k == CHOOSE k \in DOMAIN mapping :
                                       series[i] = Str(mapping[k][1])
                          IN  Str(mapping[k][2])
                     ELSE series[i],
          1, Len(series))

process_mtr_report(mtr_data_in) ==
    IF "Transaction Type" \notin Range(mtr_data_in.columns)
    THEN Raise("KeyError: 'Transaction Type'")
    ELSE LET kept == SelectSeq(mtr_data_in.rows,
                               LAMBDA r : ~IsCancel(r["Transaction Type"]))
             rows == SetColumn(kept, "Transaction Type",
                               Replace(Column(kept, "Transaction Type"),
                                       transaction_mapping))
         IN  Return([mtr_data_in EXCEPT !.rows = rows])

(***************************************************************************)
(* Inputs of the MTR normalizer                                            *)
(***************************************************************************)
MaxMtrRows == 2

\* The second report spells the column differently.
MtrSchemas ==
    { <<"Order Id", "Transaction Type", "Invoice Amount">>,
      <<"Order Id", "transaction type", "Invoice Amount">> }

MtrTypeValues ==
    {NaN, Str("Cancel"), Str("cancel"), Str(" Cancel "), Str("Refund"),
     Str("refund"), Str("FreeReplacement"), Str("Shipment")}

\* The reports with the given columns and n rows: in row i a transaction type
\* from MtrTypeValues, an order id of its own and an invoice amount or none.
MtrRows(columns, n) ==
    { [i \in 1..n |->
          [c \in Range(columns) |->
              IF lower(c) = "transaction type" THEN t[i]
              ELSE IF c = "Order Id" THEN OrderIdAt(i) ELSE a[i]]] :
      t \in [1..n -> MtrTypeValues], a \in [1..n -> {NaN, Num(100)}] }

InitMtr ==
    /\ pc = "mtr"
    /\ \E columns \in MtrSchemas :
         \E n \in 0..MaxMtrRows :
            \E rows \in MtrRows(columns, n) :
               mtr_data = DataFrame(columns, rows)
    /\ processed_mtr = NotCalled
    /\ PaymentIdle /\ ExemplarIdle /\ CategorizeIdle /\ ToleranceIdle /\ EmptyIdle /\ InsertIdle /\ UploadIdle /\ StoreIdle

\* upload_files, line 267: processed_mtr = process_mtr_report(mtr_data)
ProcessMtr ==
    /\ pc = "mtr"
    /\ processed_mtr' = process_mtr_report(mtr_data)
    /\ pc' = "mtr processed"
    /\ UNCHANGED <<mtr_data, paymentVars, exemplarVars, categorizeVars,
                   toleranceVars, emptyVars,
                   insertVars,
                   uploadVars, storeVars>>

NextMtr == ProcessMtr

SpecMtr == InitMtr /\ [][NextMtr]_vars

(***************************************************************************)
(* main.py: the report merger                                              *)
(***************************************************************************)
ExemplarColumns ==
    <<"Order Id", "Transaction Type", "Payment Type", "Invoice Amount",
      "Net Amount", "P Description", "Order Date", "Payment Date">>

MtrRequired ==
    {"Order Id", "Transaction Type", "Invoice Amount", "Item Description",
     "Order Date"}
PaymentRequired ==
    {"order id", "Transaction Type", "Payment Type", "total", "description",
     "date/time"}

\* A payment row that carries no net amount.
PaymentSegmentRow_NoTotal(row) ==
    [c \in Range(ExemplarColumns) |->
        CASE c = "Order Id" -> row["order id"]
          [] c = "Transaction Type" -> row["Transaction Type"]
          [] c = "Payment Type" -> row["Payment Type"]
          [] c = "P Description" -> row["description"]
          [] c = "Payment Date" -> row["date/time"]
          [] OTHER -> NaN]

\* Lines 195-228, the part of each concatenation that comes from mtr_df.
MtrSegmentRow(row) ==
    [c \in Range(ExemplarColumns) |->
        CASE c = "Order Id" -> row["Order Id"]
          [] c = "Transaction Type" -> row["Transaction Type"]
          [] c = "Payment Type" -> None
          [] c = "Invoice Amount" -> row["Invoice Amount"]
          [] c = "Net Amount" -> None
          [] c = "P Description" -> row["Item Description"]
          [] c = "Order Date" -> row["Order Date"]
          [] c = "Payment Date" -> None]

\* Lines 195-228, the part of each concatenation that comes from payment_df.
PaymentSegmentRow(row) ==
    [c \in Range(ExemplarColumns) |->
        CASE c = "Order Id" -> row["order id"]
          [] c = "Transaction Type" -> row["Transaction Type"]
          [] c = "Payment Type" -> row["Payment Type"]
          [] c = "Invoice Amount" -> None
          [] c = "Net Amount" -> row["total"]
          [] c = "P Description" -> row["description"]
          [] c = "Order Date" -> None
          [] c = "Payment Date" -> row["date/time"]]

\* Line 236: pd.DataFrame([None] * 8) is one column of 8 rows, .T makes it one
\* row with the columns 0..7, and * 5 multiplies its cells: None * 5 is NaN.
\* The labels 0..7 are written "0".."7" here.
EmptyRowsColumns == <<"0", "1", "2", "3", "4", "5", "6", "7">>
empty_rows ==
    [columns |-> EmptyRowsColumns,
     rows |-> << [c \in Range(EmptyRowsColumns) |-> NaN] >>]

\* pd.concat(frames, ignore_index=True): the rows of the frames in order, over
\* the union of their columns in order of first appearance, NaN where a frame
\* has no such column.
RECURSIVE ConcatColumns(_)
ConcatColumns(frames) ==
    IF frames = <<>> THEN <<>>
    ELSE LET rest == ConcatColumns(SubSeq(frames, 1, Len(frames) - 1))
             last == frames[Len(frames)].columns
         IN  rest \o SelectSeq(last, LAMBDA c : c \notin Range(rest))

RECURSIVE ConcatRows(_, _)
ConcatRows(frames, columns) ==
    IF frames = <<>> THEN <<>>
    ELSE LET f == Head(frames)
         IN  Build(LAMBDA i : [c \in Range(columns) |->
                                  IF c \in Range(f.columns) THEN f.rows[i][c] ELSE NaN],
                   1, Len(f.rows))
             \o ConcatRows(Tail(frames), columns)

concat(frames) ==
    [columns |-> ConcatColumns(frames),
     rows |-> ConcatRows(frames, ConcatColumns(frames))]

\* The dtypes of the result are not modelled: upload_files writes the table
\* to a spreadsheet and every reader infers them again.
create_exemplar_report(mtr, payment) ==
    IF ~(MtrRequired \subseteq Range(mtr.columns))
       \/ ~(PaymentRequired \subseteq Range(payment.columns))
    THEN Raise("KeyError")
    ELSE LET exemplar_df ==
                 [columns |-> ExemplarColumns,
                  rows |-> Build(LAMBDA i : MtrSegmentRow(mtr.rows[i]),
                                 1, Len(mtr.rows))
                           \o Build(LAMBDA i : PaymentSegmentRow(payment.rows[i]),
                                    1, Len(payment.rows))]
             iloc(from, to) ==
                 [exemplar_df EXCEPT !.rows = SubSeq(exemplar_df.rows, from, to)]
             exemplar_with_gaps ==
                 concat(<< iloc(1, Len(mtr.rows)),
                           empty_rows,
                           iloc(Len(mtr.rows) + 1, Len(exemplar_df.rows)) >>)
         IN  Return(exemplar_with_gaps)

(***************************************************************************)
(* Inputs of the report merger                                             *)
(***************************************************************************)
MaxSegmentRows == 2

MtrColumns ==
    <<"Order Id", "Transaction Type", "Invoice Amount", "Item Description",
      "Order Date">>

\* The columns of a processed payment report; in the second the description
\* column keeps the capital the report gave it.
PaymentSegmentSchemas ==
    { <<"date/time", "Payment Type", "order id", "description", "total",
        "Transaction Type">>,
      <<"date/time", "Payment Type", "order id", "Description", "total",
        "Transaction Type">> }

Digit(i) == SubSeq("123456789", i, i)

\* The MTR segments of n rows: row i is told apart by its description and date.
MtrSegments(n) ==
    { [i \in 1..n |->
          [c \in Range(MtrColumns) |->
              CASE c = "Order Id" -> o[i]
                [] c = "Transaction Type" -> Str("Shipment")
                [] c = "Invoice Amount" -> a[i]
                [] c = "Item Description" -> Str("Item " \o Digit(i))
                [] c = "Order Date" -> Str("2024-01-0" \o Digit(i))]] :
      o \in [1..n -> {NaN, Str("171-0000001-0000001")}],
      a \in [1..n -> {NaN, Num(100)}] }

\* The payment segments of n rows with the given columns.
PaymentSegments(columns, n) ==
    { [i \in 1..n |->
          [c \in Range(columns) |->
              CASE c = "order id" -> o[i]
                [] c = "Transaction Type" -> Str("Payment")
                [] c = "Payment Type" -> Str("Order")
                [] c = "total" -> a[i]
                [] c = "date/time" -> Str("2024-02-0" \o Digit(i))
                [] OTHER -> Str("Fee " \o Digit(i))]] :
      o \in [1..n -> {NaN, Str("171-0000001-0000001")}],
      a \in [1..n -> {Num(-5), Num(20)}] }

InitExemplar ==
    /\ pc = "exemplar"
    /\ \E m \in 0..MaxSegmentRows : \E rows \in MtrSegments(m) :
          mtr_df = DataFrame(MtrColumns, rows)
    /\ \E columns \in PaymentSegmentSchemas :
          \E p \in 0..MaxSegmentRows : \E rows \in PaymentSegments(columns, p) :
             payment_df = DataFrame(columns, rows)
    /\ exemplar_report = NotCalled
    /\ PaymentIdle /\ CategorizeIdle /\ ToleranceIdle /\ EmptyIdle /\ MtrIdle /\ InsertIdle /\ UploadIdle /\ StoreIdle

\* upload_files, line 293:
\* exemplar_report = create_exemplar_report(processed_mtr, processed_payment)
CreateExemplar ==
    /\ pc = "exemplar"
    /\ exemplar_report' = create_exemplar_report(mtr_df, payment_df)
    /\ pc' = "exemplar created"
    /\ UNCHANGED <<mtr_df, payment_df, paymentVars, categorizeVars,
                   toleranceVars, emptyVars,
                   mtrVars,
                   insertVars,
                   uploadVars, storeVars>>

NextExemplar == CreateExemplar

SpecExemplar == InitExemplar /\ [][NextExemplar]_vars

(***************************************************************************)
(* Claims about the report merger, checked under SpecExemplar              *)
(***************************************************************************)
ExemplarReturned == pc = "exemplar created" /\ exemplar_report.ok

AllNull(row) == \A c \in DOMAIN row : row[c] = NaN

\* C1: the stream create_exemplar_report returns for an MTR segment of m rows
\* and a payment segment of p rows has m+5+p rows, of which the rows m+1..m+5
\* (indices m..m+4 from 0) are null in every field.
C1_FiveRowGap ==
    ExemplarReturned =>
        LET out == exemplar_report.value.rows
            m == Len(mtr_df.rows)
            p == Len(payment_df.rows)
        IN  /\ Len(out) = m + 5 + p
            /\ \A k \in (m + 1)..(m + 5) : AllNull(out[k])

\* C2: in the returned stream the MTR rows, in input order, come first and
\* have no Payment Type, Net Amount or Payment Date; the payment rows, in
\* input order, come last and have no Invoice Amount or Order Date, their Net
\* Amount being the payment row's total and their Payment Date its date/time;
\* the rows between the two segments are null, so the segments never interleave.
C2_SegmentsInOrder ==
    ExemplarReturned =>
        LET out == exemplar_report.value.rows
            m == Len(mtr_df.rows)
            p == Len(payment_df.rows)
            first == Len(out) - p
        IN  /\ Len(out) >= m + p
            /\ \A i \in 1..m :
                  /\ out[i]["Order Id"] = mtr_df.rows[i]["Order Id"]
                  /\ out[i]["Transaction Type"] = mtr_df.rows[i]["Transaction Type"]
                  /\ out[i]["Invoice Amount"] = mtr_df.rows[i]["Invoice Amount"]
                  /\ out[i]["P Description"] = mtr_df.rows[i]["Item Description"]
                  /\ out[i]["Order Date"] = mtr_df.rows[i]["Order Date"]
                  /\ out[i]["Payment Type"] = NaN
                  /\ out[i]["Net Amount"] = NaN
                  /\ out[i]["Payment Date"] = NaN
            /\ \A j \in 1..p :
                  /\ out[first + j]["Order Id"] = payment_df.rows[j]["order id"]
                  /\ out[first + j]["Transaction Type"] =
                         payment_df.rows[j]["Transaction Type"]
                  /\ out[first + j]["Payment Type"] = payment_df.rows[j]["Payment Type"]
                  /\ out[first + j]["P Description"] = payment_df.rows[j]["description"]
                  /\ out[first + j]["Net Amount"] = payment_df.rows[j]["total"]
                  /\ out[first + j]["Payment Date"] = payment_df.rows[j]["date/time"]
                  /\ out[first + j]["Invoice Amount"] = NaN
                  /\ out[first + j]["Order Date"] = NaN
            /\ \A k \in (m + 1)..first : AllNull(out[k])

\* C2 witness: two MTR rows and two payment rows merged, the first and last
\* rows of the stream being the first MTR row and the last payment row.
C2_Witness ==
    /\ ExemplarReturned
    /\ Len(mtr_df.rows) = 2
    /\ Len(payment_df.rows) = 2
    /\ payment_df.rows[1]["total"] = Num(-5)
    /\ payment_df.rows[2]["total"] = Num(20)
    /\ exemplar_report.value.rows[1]["P Description"] = Str("Item 1")
    /\ exemplar_report.value.rows[2]["P Description"] = Str("Item 2")
    /\ LET n == Len(exemplar_report.value.rows)
       IN  /\ exemplar_report.value.rows[n - 1]["Net Amount"] = Num(-5)
           /\ exemplar_report.value.rows[n]["Net Amount"] = Num(20)
           /\ exemplar_report.value.rows[n]["Payment Date"] = Str("2024-02-02")

(***************************************************************************)
(* processing.py: the categorizer                                          *)
(***************************************************************************)
\* df.loc[mask, 'category'] = label
LocAssign(category, rows, Mask(_), label) ==
    Build(LAMBDA i : IF Mask(rows[i]) THEN label ELSE category[i], 1, Len(rows))

\* Line 54: df['order_id'].str.len() == 10 (str.len() of a missing value is NaN)
IsRemovalOrder(row) ==
    is_str(row["order_id"]) /\ Len(val(row["order_id"])) = 10
\* A Return rule that does not look at the invoice amount.
IsReturn_AnyInvoice(row) == row["transaction_type"] = Str("Return")

\* Line 58
IsReturn(row) ==
    row["transaction_type"] = Str("Return") /\ notna(row["invoice_amount"])
\* Line 60 (a comparison with NaN is false)
IsNegativePayout(row) ==
    /\ row["transaction_type"] = Str("Payment")
    /\ is_num(row["net_amount"]) /\ val(row["net_amount"]) < 0
\* Line 62
IsOrderAndPayment(row) ==
    /\ notna(row["order_id"]) /\ notna(row["payment_net_amount"])
    /\ notna(row["shipment_invoice_amount"])
\* Line 65
IsPaymentOnly(row) ==
    /\ notna(row["order_id"]) /\ notna(row["payment_net_amount"])
    /\ isna(row["shipment_invoice_amount"])
\* Line 68
IsPaymentPending(row) ==
    /\ notna(row["order_id"]) /\ notna(row["shipment_invoice_amount"])
    /\ isna(row["payment_net_amount"])

\* The assignments in the order first match wins: the Removal Order rule last.
CategoryColumn_FirstWins(rows) ==
    LET c1 == Build(LAMBDA i : Str("Uncategorized"), 1, Len(rows))
        c7 == LocAssign(c1, rows, IsPaymentPending, Str("Payment Pending"))
        c6 == LocAssign(c7, rows, IsPaymentOnly,
                        Str("Order Not Applicable but Payment Received"))
        c5 == LocAssign(c6, rows, IsOrderAndPayment, Str("Order & Payment Received"))
        c4 == LocAssign(c5, rows, IsNegativePayout, Str("Negative Payout"))
        c3 == LocAssign(c4, rows, IsReturn, Str("Return"))
    IN  LocAssign(c3, rows, IsRemovalOrder, Str("Removal Order"))

\* Lines 51-69: the category column after the seven assignments, in order.
CategoryColumn(rows) ==
    LET c1 == Build(LAMBDA i : Str("Uncategorized"), 1, Len(rows))
        c2 == LocAssign(c1, rows, IsRemovalOrder, Str("Removal Order"))
        c3 == LocAssign(c2, rows, IsReturn, Str("Return"))
        c4 == LocAssign(c3, rows, IsNegativePayout, Str("Negative Payout"))
        c5 == LocAssign(c4, rows, IsOrderAndPayment, Str("Order & Payment Received"))
        c6 == LocAssign(c5, rows, IsPaymentOnly,
                        Str("Order Not Applicable but Payment Received"))
    IN  LocAssign(c6, rows, IsPaymentPending, Str("Payment Pending"))

\* categorize_transactions adds the column to the frame it is given and
\* returns that frame.
categorize_transactions(df) ==
    IF ~HasStrAccessor(df, "order_id")
    THEN Raise("AttributeError: Can only use .str accessor with string values")
    ELSE LET category == CategoryColumn(df.rows)
             columns == Append(df.columns, "category")
         IN  Return([columns |-> columns,
                     dtype |-> [c \in Range(columns) |->
                                   IF c = "category" THEN "object" ELSE df.dtype[c]],
                     rows |-> Build(LAMBDA i : [c \in Range(columns) |->
                                                   IF c = "category" THEN category[i]
                                                   ELSE df.rows[i][c]],
                                    1, Len(df.rows))])

(***************************************************************************)
(* Inputs of the categorizer                                               *)
(***************************************************************************)
MaxMergedRows == 2

MergedColumns ==
    <<"order_id", "transaction_type", "invoice_amount", "net_amount",
      "payment_net_amount", "shipment_invoice_amount">>

OrderIds == {NaN, Str("1234567890"), Str("171-0000001-0000001")}

\* Transaction type, invoice amount and net amount of a row: an MTR row has an
\* invoice amount at most, a payment row a net amount.
Transactions ==
    { <<Str("Shipment"), Num(100), NaN>>,
      <<Str("Return"), Num(100), NaN>>,
      <<Str("Return"), NaN, NaN>>,
      <<Str("Payment"), NaN, Num(-5)>>,
      <<Str("Payment"), NaN, Num(20)>> }

MergedRows ==
    { [c \in Range(MergedColumns) |->
          CASE c = "order_id" -> o
            [] c = "transaction_type" -> t[1]
            [] c = "invoice_amount" -> t[2]
            [] c = "net_amount" -> t[3]
            [] c = "payment_net_amount" -> pna
            [] c = "shipment_invoice_amount" -> sia] :
      o \in OrderIds, t \in Transactions,
      pna \in {NaN, Num(200)}, sia \in {NaN, Num(500)} }

InitCategorize ==
    /\ pc = "categorize"
    /\ \E rows \in SeqsUpTo(MergedRows, MaxMergedRows) :
          merged_df = DataFrame(MergedColumns, rows)
    /\ categorized_df = NotCalled
    /\ PaymentIdle /\ ExemplarIdle /\ ToleranceIdle /\ EmptyIdle /\ MtrIdle /\ InsertIdle /\ UploadIdle /\ StoreIdle

\* process_exemplar_report, line 27: categorized_df = categorize_transactions(df);
\* merged_df stays the table as it was before the call.
Categorize ==
    /\ pc = "categorize"
    /\ categorized_df' = categorize_transactions(merged_df)
    /\ pc' = "categorized"
    /\ UNCHANGED <<merged_df, paymentVars, exemplarVars, toleranceVars, emptyVars,
                   mtrVars,
                   insertVars,
                   uploadVars, storeVars>>

NextCategorize == Categorize

SpecCategorize == InitCategorize /\ [][NextCategorize]_vars

(***************************************************************************)
(* Claims about the categorizer, checked under SpecCategorize              *)
(***************************************************************************)
Categorized == pc = "categorized" /\ categorized_df.ok

Labels ==
    <<"Uncategorized", "Removal Order", "Return", "Negative Payout",
      "Order & Payment Received", "Order Not Applicable but Payment Received",
      "Payment Pending">>

Present(row, c) == row[c] # NaN

\* The condition of rule k of the seven rules, as the specification words it.
Satisfies(row, k) ==
    CASE k = 1 -> TRUE
      [] k = 2 -> Present(row, "order_id") /\ Len(row["order_id"][2]) = 10
      [] k = 3 -> row["transaction_type"] = Str("Return")
                  /\ Present(row, "invoice_amount")
      [] k = 4 -> row["transaction_type"] = Str("Payment")
                  /\ Present(row, "net_amount") /\ row["net_amount"][2] < 0
      [] k = 5 -> Present(row, "order_id") /\ Present(row, "payment_net_amount")
                  /\ Present(row, "shipment_invoice_amount")
      [] k = 6 -> Present(row, "order_id") /\ Present(row, "payment_net_amount")
                  /\ ~Present(row, "shipment_invoice_amount")
      [] k = 7 -> Present(row, "order_id") /\ ~Present(row, "payment_net_amount")
                  /\ Present(row, "shipment_invoice_amount")

LastRule(row) == SetMax({k \in 1..7 : Satisfies(row, k)})

NoAmounts(row) ==
    row["payment_net_amount"] = NaN /\ row["shipment_invoice_amount"] = NaN

\* C4: every record whose order_id has length exactly 10 and whose
\* payment_net_amount and shipment_invoice_amount are both absent is a
\* "Removal Order", whatever its transaction type, invoice amount and net amount.
C4_RemovalOrderAlways ==
    Categorized =>
        \A i \in DOMAIN merged_df.rows :
            (Satisfies(merged_df.rows[i], 2) /\ NoAmounts(merged_df.rows[i]))
                => categorized_df.value.rows[i]["category"] = Str("Removal Order")

\* C4 as amended: such a record is a "Removal Order" unless it is a Return with
\* an invoice amount, which is "Return", or a Payment with a negative net
\* amount, which is "Negative Payout".
C4_RemovalOrderUnlessReturnOrPayout ==
    Categorized =>
        \A i \in DOMAIN merged_df.rows :
            (Satisfies(merged_df.rows[i], 2) /\ NoAmounts(merged_df.rows[i]))
                => categorized_df.value.rows[i]["category"] =
                       IF Satisfies(merged_df.rows[i], 3) THEN Str("Return")
                       ELSE IF Satisfies(merged_df.rows[i], 4)
                            THEN Str("Negative Payout")
                            ELSE Str("Removal Order")

\* C4 witness: a categorized table of two records with a 10-character order
\* id and no payment or shipment amount: a shipment, which is a "Removal
\* Order", and a payment with a negative net amount, "Negative Payout".
C4_Witness ==
    /\ Categorized
    /\ Len(merged_df.rows) = 2
    /\ \A i \in 1..2 : Satisfies(merged_df.rows[i], 2) /\ NoAmounts(merged_df.rows[i])
    /\ merged_df.rows[1]["transaction_type"] = Str("Shipment")
    /\ categorized_df.value.rows[1]["category"] = Str("Removal Order")
    /\ Satisfies(merged_df.rows[2], 4)
    /\ categorized_df.value.rows[2]["category"] = Str("Negative Payout")

(***************************************************************************)
(* processing.py: the tolerance analyzer                                   *)
(***************************************************************************)
\* The quotient num / den of two integers, den # 0, kept as a fraction with a
\* positive denominator.
Fraction(num, den) ==
    IF den > 0 THEN [num |-> num, den |-> den] ELSE [num |-> -num, den |-> -den]

\* fraction >= n
FractionGE(f, n) == f.num >= n * f.den

\* Inclusive lower bounds in place of the inclusive upper bounds.
calculate_tolerance_LowerInclusive(pna, percentage) ==
    LET threshold == IF 0 <= pna /\ pna < 300 THEN 50
                     ELSE IF 300 <= pna /\ pna < 500 THEN 45
                     ELSE IF 500 <= pna /\ pna < 900 THEN 43
                     ELSE IF 900 <= pna /\ pna < 1500 THEN 38
                     ELSE 30
    IN  <<threshold,
          IF FractionGE(percentage, threshold)
          THEN "Within Tolerance" ELSE "Tolerance Breached">>

calculate_tolerance(pna, percentage) ==
    LET threshold == IF 0 < pna /\ pna <= 300 THEN 50
                     ELSE IF 300 < pna /\ pna <= 500 THEN 45
                     ELSE IF 500 < pna /\ pna <= 900 THEN 43
                     ELSE IF 900 < pna /\ pna <= 1500 THEN 38
                     ELSE 30
    IN  <<threshold,
          IF FractionGE(percentage, threshold)
          THEN "Within Tolerance" ELSE "Tolerance Breached">>

\* dict.get(key): None for a key the dict does not hold.  The keys are the
\* order_id cells store_data_in_db was given.
Get(mapping, key) ==
    IF key \in DOMAIN mapping THEN Num(mapping[key]) ELSE None

\* Line 140
InToleranceMask(row) ==
    notna(row["payment_net_amount"]) /\ notna(row["shipment_invoice_amount"])

\* A test that takes only positive shipment amounts.
HasShipmentAmount_Positive(row) == val(row["shipment_invoice_amount"]) > 0

\* Line 144
HasShipmentAmount(row) == val(row["shipment_invoice_amount"]) # 0

\* Lines 145-156: the ToleranceAnalysis row built for a row of the table.
AnalysisEntry(row, mapping) ==
    LET pna == val(row["payment_net_amount"])
        sia == val(row["shipment_invoice_amount"])
        percentage == Fraction(pna * 100, sia)
        tolerance == calculate_tolerance(pna, percentage)
    IN  [processed_data_id |-> Get(mapping, row["order_id"]),
         order_id |-> row["order_id"],
         payment_net_amount |-> pna,
         shipment_invoice_amount |-> sia,
         tolerance_percentage |-> percentage,
         tolerance_threshold |-> tolerance[1],
         tolerance_status |-> tolerance[2]]

\* tolerance_analysis.processed_data_id is unique: a commit fails when two of
\* the rows it writes share a processed_data_id that is not null.
UniqueProcessedId(entries) ==
    \A i, j \in DOMAIN entries :
        (i # j /\ entries[i].processed_data_id # None)
            => entries[i].processed_data_id # entries[j].processed_data_id

\* The call on an empty table tolerance_analysis: added is what db.add was
\* given, in order; table is what the table holds when the call ends, after
\* the commit of line 159 or the rollback of line 163.
perform_tolerance_analysis(df, mapping) ==
    LET tolerance_rows == SelectSeq(df.rows, InToleranceMask)
        emitting == SelectSeq(tolerance_rows, HasShipmentAmount)
        added == Build(LAMBDA i : AnalysisEntry(emitting[i], mapping),
                       1, Len(emitting))
    IN  IF UniqueProcessedId(added)
        THEN [ok |-> TRUE, added |-> added, table |-> added]
        ELSE [ok |-> FALSE, err |-> "IntegrityError", added |-> added,
              table |-> <<>>]

(***************************************************************************)
(* Inputs of the tolerance analyzer                                        *)
(***************************************************************************)
MaxToleranceRows == 2

ToleranceColumns == <<"order_id", "payment_net_amount", "shipment_invoice_amount">>

\* Payment amounts on both sides of every tier boundary.
PaymentAmounts ==
    {NaN, Num(-100), Num(0), Num(200), Num(300), Num(301), Num(500), Num(501),
     Num(900), Num(901), Num(1000), Num(1500), Num(1501)}

ShipmentAmounts ==
    {NaN, Num(-100), Num(0), Num(100), Num(400), Num(500), Num(1000)}

ToleranceRow(o, pna, sia) ==
    [c \in Range(ToleranceColumns) |->
        CASE c = "order_id" -> o
          [] c = "payment_net_amount" -> pna
          [] c = "shipment_invoice_amount" -> sia]

\* One-row tables over all the amounts, and tables of up to MaxToleranceRows
\* rows over the amounts of the specification's worked examples.
ToleranceTables ==
    { <<ToleranceRow(Str("O1"), pna, sia)>> :
          pna \in PaymentAmounts, sia \in ShipmentAmounts }
    \cup
    SeqsUpTo({ ToleranceRow(o, a[1], a[2]) :
                   o \in {NaN, Str("O1")},
                   a \in { <<Num(200), Num(500)>>, <<Num(200), Num(100)>>,
                           <<Num(1000), Num(1000)>>, <<Num(200), Num(0)>>,
                           <<Num(200), NaN>>, <<NaN, Num(500)>> } },
             MaxToleranceRows)

InitTolerance ==
    /\ pc = "tolerance"
    /\ \E rows \in ToleranceTables :
          tolerance_df = DataFrame(ToleranceColumns, rows)
    /\ processed_id_mapping \in {<<>>, [o \in {Str("O1")} |-> 11]}
    /\ tolerance_analysis = NotCalled
    /\ PaymentIdle /\ ExemplarIdle /\ CategorizeIdle /\ EmptyIdle /\ MtrIdle /\ InsertIdle /\ UploadIdle /\ StoreIdle

\* process_exemplar_report, line 37
PerformToleranceAnalysis ==
    /\ pc = "tolerance"
    /\ tolerance_analysis' =
           perform_tolerance_analysis(tolerance_df, processed_id_mapping)
    /\ pc' = "tolerance analyzed"
    /\ UNCHANGED <<tolerance_df, processed_id_mapping, paymentVars, exemplarVars,
                   categorizeVars, emptyVars,
                   mtrVars,
                   insertVars,
                   uploadVars, storeVars>>

NextTolerance == PerformToleranceAnalysis

SpecTolerance == InitTolerance /\ [][NextTolerance]_vars

(***************************************************************************)
(* processing.py: store_data_in_db, and the tolerance results linked to    *)
(* the rows it stores                                                      *)
(***************************************************************************)
\* The keyword arguments the constructor of a model class accepts: its
\* columns.
ModelColumns ==
    [MergedData |->
         {"id", "order_id", "transaction_type", "payment_type", "description",
          "invoice_amount", "net_amount", "payment_net_amount",
          "shipment_invoice_amount", "order_date", "payment_date", "created_at"},
     ProcessedData |->
         {"id", "merged_data_id", "order_id", "category", "transaction_type",
          "payment_type", "invoice_amount", "net_amount", "payment_net_amount",
          "shipment_invoice_amount", "description", "is_removal_order",
          "created_at"}]

TableOf == [MergedData |-> "merged_data", ProcessedData |-> "processed_data"]

\* Line 95, `if row.get('order_id')`: a missing cell is a float NaN, which is
\* true; of the strings only the empty one is false.
HasOrderId(cell) == cell # Str("")

\* Whether a later dict lookup with an equal cell finds the key stored for
\* this cell.  NaN is not equal to itself, so the key of a missing cell is
\* found again only by the very same object; shared tells whether the missing
\* cells of the table are one object.
KeyFound(cell, shared) == notna(cell) \/ shared

\* Lines 86-101: the entries added to the table, each with the id the flush
\* of line 93 generates, and the mapping returned, where the last row of an
\* order id wins.  The constructor raises TypeError for a column the model
\* class does not have.
store_data_in_db(df, model_class, order_id_mapping_in, last_id, shared) ==
    LET start == IF order_id_mapping_in = None THEN <<>> ELSE order_id_mapping_in
        n == Len(df.rows)
        keyed == {i \in 1..n : /\ HasOrderId(df.rows[i]["order_id"])
                               /\ KeyFound(df.rows[i]["order_id"], shared)}
        keys == {df.rows[i]["order_id"] : i \in keyed}
        last(k) == SetMax({i \in keyed : df.rows[i]["order_id"] = k})
    IN  IF n > 0 /\ ~(Range(df.columns) \subseteq ModelColumns[model_class])
        THEN Raise("TypeError")
        ELSE Return([entries |-> Build(LAMBDA i : [id |-> last_id + i,
                                                   row |-> df.rows[i]], 1, n),
                     mapping |-> [k \in DOMAIN start \cup keys |->
                                     IF k \in keys THEN last_id + last(k)
                                     ELSE start[k]],
                     last_id |-> last_id + n])

(***************************************************************************)
(* Inputs of store_data_in_db                                              *)
(***************************************************************************)
MaxStoreRows == 2

StoreColumns == ToleranceColumns \o <<"category">>

StoreOrderIds == {NaN, Str("O1"), Str("O2")}

\* Rows with both amounts, with one, with none.
StoreAmounts ==
    { <<Num(200), Num(500)>>, <<Num(1000), Num(1000)>>, <<Num(200), NaN>>,
      <<NaN, NaN>> }

StoreTables ==
    SeqsUpTo({ ToleranceRow(o, a[1], a[2]) : o \in StoreOrderIds, a \in StoreAmounts },
             MaxStoreRows)

\* The row with the category column categorize_transactions adds.
WithCategory(row) ==
    [c \in Range(StoreColumns) |->
        IF c = "category" THEN Str("Uncategorized") ELSE row[c]]

\* process_exemplar_report gives store_merged_data the table that
\* categorize_transactions has changed in place (lines 27-30); a caller that
\* keeps the merged table apart gives it the table without the category.
InitStore ==
    /\ pc = "store merged"
    /\ \E rows \in StoreTables :
          /\ tolerance_df =
                 DataFrame(StoreColumns,
                           Build(LAMBDA i : WithCategory(rows[i]), 1, Len(rows)))
          /\ store_df \in {tolerance_df, DataFrame(ToleranceColumns, rows)}
    /\ nan_objects \in {"one object", "an object per cell"}
    /\ id_sequence \in {[merged_data |-> m, processed_data |-> p] :
                           m \in {10}, p \in {10, 20}}
    /\ order_id_mapping = NotCalled
    /\ processed_data = <<>>
    /\ processed_id_mapping = <<>>
    /\ tolerance_analysis = NotCalled
    /\ PaymentIdle /\ ExemplarIdle /\ CategorizeIdle /\ EmptyIdle /\ MtrIdle
    /\ InsertIdle /\ UploadIdle

\* process_exemplar_report, line 30
StoreMergedData ==
    /\ pc = "store merged"
    /\ LET result == store_data_in_db(store_df, "MergedData", None,
                                      id_sequence[TableOf["MergedData"]],
                                      nan_objects = "one object")
       IN  /\ order_id_mapping' = result
           /\ IF result.ok
              THEN /\ id_sequence' = [id_sequence EXCEPT
                                          ![TableOf["MergedData"]] = result.value.last_id]
                   /\ pc' = "store processed"
              ELSE /\ pc' = "store failed"
                   /\ UNCHANGED id_sequence
    /\ UNCHANGED <<store_df, nan_objects, processed_data, toleranceVars,
                   paymentVars, exemplarVars, categorizeVars, emptyVars, mtrVars,
                   insertVars, uploadVars>>

\* process_exemplar_report, line 31
StoreProcessedData ==
    /\ pc = "store processed"
    /\ LET result == store_data_in_db(tolerance_df, "ProcessedData",
                                      order_id_mapping.value.mapping,
                                      id_sequence[TableOf["ProcessedData"]],
                                      nan_objects = "one object")
       IN  /\ processed_id_mapping' = result.value.mapping
           /\ processed_data' = result.value.entries
           /\ id_sequence' = [id_sequence EXCEPT
                                  ![TableOf["ProcessedData"]] = result.value.last_id]
    /\ pc' = "tolerance"
    /\ UNCHANGED <<store_df, nan_objects, order_id_mapping, tolerance_df,
                   tolerance_analysis, paymentVars, exemplarVars, categorizeVars,
                   emptyVars, mtrVars, insertVars, uploadVars>>

NextStore == StoreMergedData \/ StoreProcessedData \/ PerformToleranceAnalysis

SpecStore == InitStore /\ [][NextStore]_vars

(***************************************************************************)
(* Claims about the tolerance analyzer, checked under SpecTolerance        *)
(***************************************************************************)
ToleranceAnalyzed == pc = "tolerance analyzed"

\* The positions of the records that have both amounts, the shipment amount
\* not 0.
Analyzable ==
    {i \in DOMAIN tolerance_df.rows :
        /\ tolerance_df.rows[i]["payment_net_amount"] # NaN
        /\ tolerance_df.rows[i]["shipment_invoice_amount"] # NaN
        /\ tolerance_df.rows[i]["shipment_invoice_amount"] # Num(0)}

\* C5: perform_tolerance_analysis emits a ToleranceResult for exactly the
\* records that have both amounts with a shipment amount other than 0, one
\* each, in order; a table in which every record lacks an amount or has a
\* shipment amount of 0 yields no result and no error, whatever the payment
\* amounts.
C5_EmitsIffBothAmounts ==
    ToleranceAnalyzed =>
        LET added == tolerance_analysis.added
        IN  /\ Len(added) = Cardinality(Analyzable)
            /\ \A j \in DOMAIN added :
                  LET row == tolerance_df.rows[Nth(Analyzable, j)]
                  IN  /\ added[j].order_id = row["order_id"]
                      /\ Num(added[j].payment_net_amount) = row["payment_net_amount"]
                      /\ Num(added[j].shipment_invoice_amount) =
                             row["shipment_invoice_amount"]
            /\ Analyzable = {} =>
                  tolerance_analysis.ok /\ tolerance_analysis.table = <<>>

\* C5 witness: a table whose first record has a shipment amount of 0 and whose
\* second has both amounts; the call emits one result, for the second.
C5_Witness ==
    /\ ToleranceAnalyzed
    /\ Len(tolerance_df.rows) = 2
    /\ tolerance_df.rows[1]["payment_net_amount"] = Num(200)
    /\ tolerance_df.rows[1]["shipment_invoice_amount"] = Num(0)
    /\ tolerance_df.rows[2]["order_id"] = Str("O1")
    /\ tolerance_df.rows[2]["shipment_invoice_amount"] = Num(100)
    /\ tolerance_analysis.ok
    /\ Len(tolerance_analysis.added) = 1
    /\ tolerance_analysis.added[1].order_id = Str("O1")

\* The threshold tiers as the specification gives them.
TierThreshold(pna) ==
    CASE pna \in 1..300 -> 50
      [] pna \in 301..500 -> 45
      [] pna \in 501..900 -> 43
      [] pna \in 901..1500 -> 38
      [] OTHER -> 30

\* C6: every emitted ToleranceResult has tolerance_percentage = pna / s x 100,
\* the threshold of the tier of pna (50, 45, 43, 38 up to 300, 500, 900, 1500,
\* and 30 for pna <= 0 or pna > 1500), and the status "Within Tolerance"
\* exactly when the percentage is at least the threshold; pna=200, s=500 is
\* Breached, pna=200, s=100 and pna=1000, s=1000 are Within.
C6_TieredThreshold ==
    ToleranceAnalyzed =>
        \A j \in DOMAIN tolerance_analysis.added :
            LET e == tolerance_analysis.added[j]
                pna == e.payment_net_amount
                sia == e.shipment_invoice_amount
                pct == e.tolerance_percentage
                within == e.tolerance_status = "Within Tolerance"
            IN  /\ pct.den # 0
                /\ pct.num * sia = pna * 100 * pct.den
                /\ e.tolerance_threshold = TierThreshold(pna)
                /\ e.tolerance_status \in {"Within Tolerance", "Tolerance Breached"}
                /\ within <=> IF sia > 0 THEN pna * 100 >= e.tolerance_threshold * sia
                              ELSE pna * 100 <= e.tolerance_threshold * sia
                /\ (pna = 200 /\ sia = 500) => ~within
                /\ (pna = 200 /\ sia = 100) => within
                /\ (pna = 1000 /\ sia = 1000) => within

\* C6 witness: the results for pna=200, s=500 (40 percent, threshold 50,
\* Breached) and pna=1000, s=1000 (100 percent, threshold 38, Within).
C6_Witness ==
    /\ ToleranceAnalyzed
    /\ Len(tolerance_analysis.added) = 2
    /\ LET e1 == tolerance_analysis.added[1]
           e2 == tolerance_analysis.added[2]
       IN  /\ e1.payment_net_amount = 200 /\ e1.shipment_invoice_amount = 500
           /\ e1.tolerance_threshold = 50
           /\ e1.tolerance_status = "Tolerance Breached"
           /\ e2.payment_net_amount = 1000 /\ e2.shipment_invoice_amount = 1000
           /\ e2.tolerance_threshold = 38
           /\ e2.tolerance_status = "Within Tolerance"

(***************************************************************************)
(* processing.py: the empty-order aggregator                               *)
(***************************************************************************)
\* The values a groupby key can take, in the order groupby sorts them.
SortedKeys == <<"X", "Y">>

\* The sum aggregation: missing values are skipped, so that a group without
\* a value sums to 0.
RECURSIVE Sum(_, _, _)
Sum(rows, column, i) ==
    IF i > Len(rows) THEN 0
    ELSE (IF notna(rows[i][column]) THEN val(rows[i][column]) ELSE 0)
         + Sum(rows, column, i + 1)

\* The count aggregation: the number of values of the column that are not
\* missing.
Count(rows, column) == Len(SelectSeq(rows, LAMBDA row : notna(row[column])))

\* Lines 109-117: one row per value of description among the rows given, rows
\* with a missing description in no group, with the sum of net_amount and the
\* count of order_id.
GroupByDescription(rows) ==
    LET keys == SelectSeq(SortedKeys,
                          LAMBDA k : \E i \in DOMAIN rows :
                                         rows[i]["description"] = Str(k))
        Group(k) == SelectSeq(rows, LAMBDA row : row["description"] = Str(k))
    IN  Build(LAMBDA j : [description |-> keys[j],
                          total_net_amount |-> Sum(Group(keys[j]), "net_amount", 1),
                          transaction_count |-> Count(Group(keys[j]), "order_id")],
              1, Len(keys))

\* The EmptyOrderSummary rows the call adds and commits.
process_empty_orders(df) ==
    LET empty_orders == SelectSeq(df.rows, LAMBDA row : isna(row["order_id"]))
    IN  Return(GroupByDescription(empty_orders))

(***************************************************************************)
(* Inputs of the empty-order aggregator                                    *)
(***************************************************************************)
MaxEmptyRows == 2

EmptyColumns == <<"order_id", "description", "net_amount">>

EmptyRows ==
    { [c \in Range(EmptyColumns) |->
          CASE c = "order_id" -> o
            [] c = "description" -> d
            [] c = "net_amount" -> a] :
      o \in {NaN, Str(""), Str("O1")},
      d \in {NaN, Str("X"), Str("Y")},
      a \in {NaN, Num(10), Num(20)} }

InitEmpty ==
    /\ pc = "empty orders"
    /\ \E rows \in SeqsUpTo(EmptyRows, MaxEmptyRows) :
          empty_df = DataFrame(EmptyColumns, rows)
    /\ empty_order_summary = NotCalled
    /\ PaymentIdle /\ ExemplarIdle /\ CategorizeIdle /\ ToleranceIdle /\ MtrIdle /\ InsertIdle /\ UploadIdle /\ StoreIdle

\* process_exemplar_report, line 34
ProcessEmptyOrders ==
    /\ pc = "empty orders"
    /\ empty_order_summary' = process_empty_orders(empty_df)
    /\ pc' = "empty orders processed"
    /\ UNCHANGED <<empty_df, paymentVars, exemplarVars, categorizeVars,
                   toleranceVars,
                   mtrVars,
                   insertVars,
                   uploadVars, storeVars>>

NextEmpty == ProcessEmptyOrders

SpecEmpty == InitEmpty /\ [][NextEmpty]_vars

(***************************************************************************)
(* Claims about the empty-order aggregator, checked under SpecEmpty        *)
(***************************************************************************)
EmptyProcessed == pc = "empty orders processed"

\* The positions of the records without an order_id whose description is d.
EmptyGroup(d) ==
    {i \in DOMAIN empty_df.rows :
        /\ empty_df.rows[i]["order_id"] = NaN
        /\ empty_df.rows[i]["description"] = d}

RECURSIVE NetAmountTotal(_)
NetAmountTotal(S) ==
    IF S = {} THEN 0
    ELSE LET i == CHOOSE x \in S : TRUE
             a == empty_df.rows[i]["net_amount"]
         IN  (IF a = NaN THEN 0 ELSE a[2]) + NetAmountTotal(S \ {i})

\* C7: process_empty_orders emits exactly one EmptyOrderSummary per distinct
\* description among the records whose order_id is absent, with
\* total_net_amount the sum of the group's net_amount, nulls counted as 0, and
\* transaction_count the number of records of the group; records with an
\* order_id, the empty string included, contribute to no summary.
C7_OneSummaryPerDescription ==
    EmptyProcessed =>
        LET summaries == empty_order_summary.value
            Described == {d \in {"X", "Y"} : EmptyGroup(Str(d)) # {}}
        IN  /\ {summaries[j].description : j \in DOMAIN summaries} = Described
            /\ Len(summaries) = Cardinality(Described)
            /\ \A j \in DOMAIN summaries :
                  LET group == EmptyGroup(Str(summaries[j].description))
                  IN  /\ summaries[j].total_net_amount = NetAmountTotal(group)
                      /\ summaries[j].transaction_count = Cardinality(group)

\* The part of C7 that leaves transaction_count aside.
C7_GroupsAndTotals ==
    EmptyProcessed =>
        LET summaries == empty_order_summary.value
            Described == {d \in {"X", "Y"} : EmptyGroup(Str(d)) # {}}
        IN  /\ {summaries[j].description : j \in DOMAIN summaries} = Described
            /\ Len(summaries) = Cardinality(Described)
            /\ \A j \in DOMAIN summaries :
                  summaries[j].total_net_amount =
                      NetAmountTotal(EmptyGroup(Str(summaries[j].description)))

\* Every transaction_count is 0.
C7_CountIsZero ==
    EmptyProcessed =>
        \A j \in DOMAIN empty_order_summary.value :
            empty_order_summary.value[j].transaction_count = 0

(***************************************************************************)
(* database.py: insert_exemplar_data                                       *)
(***************************************************************************)
\* DataFrame.to_excel followed by pd.read_excel: the cells of the model (blank,
\* number, non-empty string) come back as they were written, and the column
\* types are inferred again.
read_excel(file) == DataFrame(file.columns, file.rows)

\* Line 183, dropna(how='all')
dropna_all(df) ==
    [df EXCEPT !.rows =
        SelectSeq(df.rows, LAMBDA row : \E c \in DOMAIN row : notna(row[c]))]

\* row.get(key): None when the row has no such column.
RowGet(row, key) == IF key \in DOMAIN row THEN row[key] ELSE None

Digits == "0123456789"
DigitValue(c) == (CHOOSE k \in 1..10 : CharAt(Digits, k) = c) - 1
IsDigit(c) == \E k \in 1..10 : CharAt(Digits, k) = c

\* s.replace(',', '')
RECURSIVE RemoveCommas(_)
RemoveCommas(s) ==
    IF s = "" THEN ""
    ELSE (IF CharAt(s, 1) = "," THEN "" ELSE CharAt(s, 1))
         \o RemoveCommas(SubSeq(s, 2, Len(s)))

RECURSIVE DigitsValue(_, _)
DigitsValue(s, acc) ==
    IF s = "" THEN acc
    ELSE DigitsValue(SubSeq(s, 2, Len(s)), acc * 10 + DigitValue(CharAt(s, 1)))

\* float(s) for the strings that are whole numbers, with or without a sign;
\* any other string here holds no number and float raises ValueError.
float(s) ==
    LET Signed(negative, body) ==
            IF body # "" /\ \A k \in 1..Len(body) : IsDigit(CharAt(body, k))
            THEN Return(IF negative THEN -DigitsValue(body, 0)
                        ELSE DigitsValue(body, 0))
            ELSE Raise("ValueError: could not convert string to float")
        Parse(t) ==
            Signed(t # "" /\ CharAt(t, 1) = "-",
                   IF t # "" /\ CharAt(t, 1) \in {"-", "+"}
                   THEN SubSeq(t, 2, Len(t)) ELSE t)
    IN  Parse(strip(s))

\* float(s.replace(',', '')) as a cell.
FloatCell(s) ==
    LET Cell(f) == IF f.ok THEN Return(Num(f.value)) ELSE f
    IN  Cell(float(RemoveCommas(s)))

\* Lines 206-207: a string is converted, anything else becomes None.
Amount(cell) ==
    IF is_str(cell) /\ notna(cell) THEN FloatCell(val(cell)) ELSE Return(None)

\* str(value) of a cell that is not null; a number of a float64 column prints
\* with one decimal.
PyStr(cell) ==
    IF notna(cell)
    THEN Str(IF is_str(cell) THEN val(cell) ELSE ToString(val(cell)) \o ".0")
    ELSE None

\* Lines 195-200: pd.to_datetime(value, errors='coerce'), NaT taken to None.
\* A string is a date here when it has the form dddd-dd-dd.
to_datetime(cell) ==
    IF is_str(cell) /\ Len(val(cell)) = 10
       /\ \A k \in 1..10 : IF k \in {5, 8} THEN CharAt(val(cell), k) = "-"
                           ELSE IsDigit(CharAt(val(cell), k))
    THEN <<"d", val(cell)>>
    ELSE IF is_num(cell) THEN <<"d", val(cell)>> ELSE None

\* Lines 195-219: the ExemplarReport entry of a row, or the error raised.
ExemplarEntry(row) ==
    LET Entry(invoice_amount, net_amount) ==
            IF ~invoice_amount.ok THEN invoice_amount
            ELSE IF ~net_amount.ok THEN net_amount
            ELSE Return(
                [order_id |-> PyStr(RowGet(row, "Order Id")),
                 transaction_type |-> PyStr(RowGet(row, "Transaction Type")),
                 payment_type |-> PyStr(RowGet(row, "Payment Type")),
                 invoice_amount |-> invoice_amount.value,
                 net_amount |-> net_amount.value,
                 p_description |-> PyStr(RowGet(row, "P Description")),
                 order_date |-> to_datetime(RowGet(row, "Order Date")),
                 payment_date |-> to_datetime(RowGet(row, "Payment Date"))])
    IN  Entry(Amount(RowGet(row, "Invoice Amount")),
              Amount(RowGet(row, "Net Amount")))

\* The number of rows between two commits: the 500 of line 225, scaled down.
BatchSize == 2

\* Lines 230-234: the failure is counted and the session rolled back, which
\* takes every entry added since the last commit out of the session.
RowFailed(st) ==
    [st EXCEPT !.failed_inserts = @ + 1, !.pending = <<>>]

\* Lines 192-234: the loop from row i on.  st holds the session's pending
\* entries, the committed entries, the two counters and the number of commits
\* attempted; ok[k] tells whether the database accepts the k-th commit.
RECURSIVE InsertFrom(_, _, _, _)
InsertFrom(rows, i, st, ok) ==
    IF i > Len(rows) THEN st
    ELSE LET \* Lines 225-227 and 230-234: the commit of a full batch
             Commit(tried) ==
                 IF ok[tried.commits]
                 THEN [tried EXCEPT !.committed = @ \o tried.pending,
                                    !.pending = <<>>]
                 ELSE RowFailed(tried)
             \* Lines 221-225
             Added(added) ==
                 IF added.successful_inserts % BatchSize # 0 THEN added
                 ELSE Commit([added EXCEPT !.commits = @ + 1])
             Step(entry) ==
                 IF ~entry.ok THEN RowFailed(st)
                 ELSE Added([st EXCEPT !.pending = Append(@, entry.value),
                                       !.successful_inserts = @ + 1])
         IN  CHOOSE result \in {InsertFrom(rows, i + 1, next, ok) :
                                   next \in {Step(ExemplarEntry(rows[i]))}} : TRUE

\* The call: committed is what table exemplar_report gained, ok whether the
\* call returned; the counters are those of lines 239-241.
insert_exemplar_data(file, ok) ==
    LET st0 == [pending |-> <<>>, committed |-> <<>>, successful_inserts |-> 0,
                failed_inserts |-> 0, commits |-> 0]
        \* Lines 237-245: the final commit
        Finish(st) ==
            IF ok[st.commits + 1]
            THEN [ok |-> TRUE, committed |-> st.committed \o st.pending,
                  successful_inserts |-> st.successful_inserts,
                  failed_inserts |-> st.failed_inserts]
            ELSE [ok |-> FALSE, err |-> "commit failed",
                  committed |-> st.committed,
                  successful_inserts |-> st.successful_inserts,
                  failed_inserts |-> st.failed_inserts]
    IN  CHOOSE result \in {Finish(st) :
                              st \in {InsertFrom(dropna_all(read_excel(file)).rows,
                                                 1, st0, ok)}} : TRUE

(***************************************************************************)
(* Inputs of insert_exemplar_data                                          *)
(***************************************************************************)
MaxExemplarRows == 3

\* The columns create_exemplar_report gives the table.
ExemplarFileColumns == ExemplarColumns \o EmptyRowsColumns

\* The amounts a cell can hold: blank, a number, a numeric string with a
\* thousands separator, and a string that holds no number.
AmountCells == {NaN, Num(100), Str("1,250"), Str("abc")}

\* What row i of the spreadsheet can be: a row from the MTR report, a row
\* from the payment report, or the gap row.
ExemplarFileRows(i) ==
    { [c \in Range(ExemplarFileColumns) |->
          CASE c = "Order Id" -> Str("O" \o Digit(i))
            [] c = "Transaction Type" -> Str("Shipment")
            [] c = "Invoice Amount" -> a
            [] c = "P Description" -> Str("Item " \o Digit(i))
            [] c = "Order Date" -> Str("2024-01-0" \o Digit(i))
            [] OTHER -> NaN] : a \in AmountCells }
    \cup
    { [c \in Range(ExemplarFileColumns) |->
          CASE c = "Order Id" -> Str("O" \o Digit(i))
            [] c = "Transaction Type" -> Str("Payment")
            [] c = "Payment Type" -> Str("Order")
            [] c = "Net Amount" -> a
            [] c = "P Description" -> Str("Fee " \o Digit(i))
            [] c = "Payment Date" -> Str("2024-02-0" \o Digit(i))
            [] OTHER -> NaN] : a \in AmountCells \ {NaN} }
    \cup
    { [c \in Range(ExemplarFileColumns) |-> NaN] }

ExemplarFiles(n) ==
    { rows \in [1..n -> UNION {ExemplarFileRows(i) : i \in 1..n}] :
          \A i \in 1..n : rows[i] \in ExemplarFileRows(i) }

\* The most commits a call on n rows attempts.
MaxCommits(n) == n \div BatchSize + 1

InitInsert ==
    /\ pc = "insert"
    /\ \E n \in 0..MaxExemplarRows : \E rows \in ExemplarFiles(n) :
          exemplar_file = [columns |-> ExemplarFileColumns, rows |-> rows]
    /\ commit_ok \in [1..MaxCommits(MaxExemplarRows) -> BOOLEAN]
    /\ inserted = NotCalled
    /\ PaymentIdle /\ ExemplarIdle /\ CategorizeIdle /\ ToleranceIdle /\ EmptyIdle /\ UploadIdle /\ StoreIdle
       /\ MtrIdle

\* upload_files, line 309: insert_exemplar_data(exemplar_output_path)
InsertExemplarData ==
    /\ pc = "insert"
    /\ inserted' = insert_exemplar_data(exemplar_file, commit_ok)
    /\ pc' = "inserted"
    /\ UNCHANGED <<exemplar_file, commit_ok, paymentVars, exemplarVars,
                   categorizeVars, toleranceVars, emptyVars, mtrVars,
                   uploadVars, storeVars>>

NextInsert == InsertExemplarData

SpecInsert == InitInsert /\ [][NextInsert]_vars

(***************************************************************************)
(* main.py: upload_files                                                   *)
(***************************************************************************)
payment_output_path == "output/transformed_payment_report.csv"
mtr_output_path == "output/transformed_mtr_report.xlsx"
exemplar_output_path == "output/exemplar_report.xlsx"
OutputPaths == {payment_output_path, mtr_output_path, exemplar_output_path}

NoFile == <<>>

\* DataFrame.to_csv / DataFrame.to_excel with index=False: the file holds the
\* column labels and the cells.
to_file(df) == [columns |-> df.columns, rows |-> df.rows]

\* The tables of the database.
Tables ==
    {"exemplar_report", "merged_data", "processed_data", "tolerance_analysis",
     "empty_order_summary"}

\* The positions of the handler from which it runs without an await.
Synchronous ==
    {"process payment", "process mtr", "save payment", "save mtr",
     "create exemplar", "save exemplar", "insert"}

\* Request r can take a step: requests of one process share an event loop,
\* which runs a handler from one await to the next without switching.
CanRun(r) ==
    /\ r \in requests
    /\ deployment = "one process" =>
          \A q \in requests \ {r} : upload_pc[q] \notin Synchronous

\* Lines 317-320: the exception becomes HTTPException(status_code=400).
Reject(r, err) ==
    /\ response' = [response EXCEPT ![r] = [status_code |-> 400, detail |-> err]]
    /\ upload_pc' = [upload_pc EXCEPT ![r] = "done"]

\* Line 257
ReadPayment(r) ==
    /\ CanRun(r) /\ upload_pc[r] = "read payment"
    /\ local' = [local EXCEPT ![r].payment_data = uploaded[r].payment_report]
    /\ upload_pc' = [upload_pc EXCEPT ![r] = "read mtr"]
    /\ UNCHANGED <<requests, deployment, uploaded, files, written, persisted,
                   db_ok, stages, response>>

\* Line 261
ReadMtr(r) ==
    /\ CanRun(r) /\ upload_pc[r] = "read mtr"
    /\ local' = [local EXCEPT ![r].mtr_data = uploaded[r].mtr_report]
    /\ upload_pc' = [upload_pc EXCEPT ![r] = "process payment"]
    /\ UNCHANGED <<requests, deployment, uploaded, files, written, persisted,
                   db_ok, stages, response>>

\* Line 266
NormalizePayment(r) ==
    /\ CanRun(r) /\ upload_pc[r] = "process payment"
    /\ LET result == process_payment_report(local[r].payment_data)
       IN  IF result.ok
           THEN /\ local' = [local EXCEPT ![r].processed_payment = result.value]
                /\ upload_pc' = [upload_pc EXCEPT ![r] = "process mtr"]
                /\ stages' = [stages EXCEPT ![r] = Append(@, "normalize payment")]
                /\ UNCHANGED response
           ELSE Reject(r, result.err) /\ UNCHANGED <<local, stages>>
    /\ UNCHANGED <<requests, deployment, uploaded, files, written, persisted, db_ok>>

\* Line 267
NormalizeMtr(r) ==
    /\ CanRun(r) /\ upload_pc[r] = "process mtr"
    /\ LET result == process_mtr_report(local[r].mtr_data)
       IN  IF result.ok
           THEN /\ local' = [local EXCEPT ![r].processed_mtr = result.value]
                /\ upload_pc' = [upload_pc EXCEPT ![r] = "save payment"]
                /\ stages' = [stages EXCEPT ![r] = Append(@, "normalize mtr")]
                /\ UNCHANGED response
           ELSE Reject(r, result.err) /\ UNCHANGED <<local, stages>>
    /\ UNCHANGED <<requests, deployment, uploaded, files, written, persisted, db_ok>>

\* Lines 278-290 and 295-300: a table is written to its path.
Save(r, at, df, path, then) ==
    /\ CanRun(r) /\ upload_pc[r] = at
    /\ files' = [files EXCEPT ![path] = to_file(df)]
    /\ written' = [written EXCEPT ![r] = @ \cup {path}]
    /\ upload_pc' = [upload_pc EXCEPT ![r] = then]
    /\ UNCHANGED <<requests, deployment, uploaded, local, persisted, db_ok,
                   stages, response>>

\* Line 279
SavePayment(r) ==
    Save(r, "save payment", local[r].processed_payment, payment_output_path,
         "save mtr")

\* Line 286
SaveMtr(r) ==
    Save(r, "save mtr", local[r].processed_mtr, mtr_output_path, "create exemplar")

\* Line 293
CreateExemplarReport(r) ==
    /\ CanRun(r) /\ upload_pc[r] = "create exemplar"
    /\ LET result == create_exemplar_report(local[r].processed_mtr,
                                            local[r].processed_payment)
       IN  IF result.ok
           THEN /\ local' = [local EXCEPT ![r].exemplar_report = result.value]
                /\ upload_pc' = [upload_pc EXCEPT ![r] = "save exemplar"]
                /\ stages' = [stages EXCEPT ![r] = Append(@, "merge")]
                /\ UNCHANGED response
           ELSE Reject(r, result.err) /\ UNCHANGED <<local, stages>>
    /\ UNCHANGED <<requests, deployment, uploaded, files, written, persisted, db_ok>>

\* Line 296
SaveExemplar(r) ==
    Save(r, "save exemplar", local[r].exemplar_report, exemplar_output_path,
         "insert")

\* Lines 309-315: insert_exemplar_data reads the file that is at
\* exemplar_output_path now; when it returns, so does the handler.
InsertAndRespond(r) ==
    /\ CanRun(r) /\ upload_pc[r] = "insert"
    /\ LET result == insert_exemplar_data(files[exemplar_output_path], db_ok[r])
       IN  /\ persisted' = [persisted EXCEPT ![r]["exemplar_report"] =
                                                    result.committed]
           /\ IF result.ok
              THEN /\ response' =
                         [response EXCEPT ![r] =
                             [status_code |-> 200,
                              files_created |-> <<"transformed_payment_report.csv",
                                                  "transformed_mtr_report.xlsx",
                                                  "exemplar_report.xlsx">>]]
                   /\ upload_pc' = [upload_pc EXCEPT ![r] = "done"]
                   /\ stages' = [stages EXCEPT ![r] = Append(@, "persist exemplar")]
              ELSE Reject(r, result.err) /\ UNCHANGED stages
    /\ UNCHANGED <<requests, deployment, uploaded, local, files, written, db_ok>>

\* upload_files leaves the variables of the other components alone.
OnlyUpload ==
    UNCHANGED <<pc, paymentVars, exemplarVars, categorizeVars, toleranceVars,
                emptyVars, mtrVars, insertVars, storeVars>>

UploadStep(r) ==
    \/ ReadPayment(r) /\ OnlyUpload
    \/ ReadMtr(r) /\ OnlyUpload
    \/ NormalizePayment(r) /\ OnlyUpload
    \/ NormalizeMtr(r) /\ OnlyUpload
    \/ SavePayment(r) /\ OnlyUpload
    \/ SaveMtr(r) /\ OnlyUpload
    \/ CreateExemplarReport(r) /\ OnlyUpload
    \/ SaveExemplar(r) /\ OnlyUpload
    \/ InsertAndRespond(r) /\ OnlyUpload

\* The requests the service is given at most.
RequestIds == {1, 2}

NextUpload == \E r \in RequestIds : UploadStep(r)

(***************************************************************************)
(* Inputs of upload_files                                                  *)
(***************************************************************************)
MaxUploadRows == 2

\* The column layouts of an uploaded payment report: as expected; with two
\* columns named type; without a type column; without a description column;
\* with the description column capitalized.
UploadPaymentSchemas ==
    { <<"date/time", "type", "order id", "description", "total">>,
      <<"date/time", "TYPE", "type", "order id", "description", "total">>,
      <<"date/time", "order id", "description", "total">>,
      <<"date/time", "type", "order id", "total">>,
      <<"date/time", "type", "order id", "Description", "total">> }

\* The payment reports of request r with the given columns and n rows.
UploadedPayments(r, columns, n) ==
    { [i \in 1..n |->
          [c \in Range(columns) |->
              CASE c = "date/time" -> Str("2024-02-0" \o Digit(i))
                [] c = "type" -> Str("Refund")
                [] c = "TYPE" -> Str("Order")
                [] c = "order id" -> Str("P" \o Digit(r) \o Digit(i))
                [] c = "total" -> a[i]
                [] OTHER -> Str("Fee " \o Digit(i))]] :
      a \in [1..n -> {Num(20), Str("abc")}] }

UploadMtrColumns ==
    <<"Order Id", "Transaction Type", "Invoice Amount", "Item Description",
      "Order Date">>

\* The MTR reports of request r with n rows.
UploadedMtrs(r, n) ==
    { [i \in 1..n |->
          [c \in Range(UploadMtrColumns) |->
              CASE c = "Order Id" -> Str("M" \o Digit(r) \o Digit(i))
                [] c = "Transaction Type" -> Str("Shipment")
                [] c = "Invoice Amount" -> a[i]
                [] c = "Item Description" -> Str("Item " \o Digit(i))
                [] c = "Order Date" -> Str("2024-01-0" \o Digit(i))]] :
      a \in [1..n -> {Num(100), Str("1,250")}] }

\* The state in which the requests of set rs have arrived and nothing of
\* theirs has been written.
Arrived(rs) ==
    /\ pc = "upload"
    /\ requests = rs
    /\ upload_pc = [r \in rs |-> "read payment"]
    /\ local = [r \in rs |->
                   [payment_data |-> <<>>, mtr_data |-> <<>>,
                    processed_payment |-> <<>>, processed_mtr |-> <<>>,
                    exemplar_report |-> <<>>]]
    /\ files = [path \in OutputPaths |-> NoFile]
    /\ written = [r \in rs |-> {}]
    /\ persisted = [r \in rs |-> [t \in Tables |-> <<>>]]
    /\ stages = [r \in rs |-> <<>>]
    /\ response = [r \in rs |-> NotCalled]
    /\ PaymentIdle /\ ExemplarIdle /\ CategorizeIdle /\ ToleranceIdle
    /\ EmptyIdle /\ MtrIdle /\ InsertIdle /\ StoreIdle

\* One request, any reports, any outcome of its commits.
InitUpload ==
    /\ Arrived({1})
    /\ deployment = "one process"
    /\ \E columns \in UploadPaymentSchemas :
         \E p, m \in 0..MaxUploadRows :
            \E payment \in UploadedPayments(1, columns, p) :
               \E mtr \in UploadedMtrs(1, m) :
                  uploaded = [r \in {1} |->
                                 [payment_report |-> DataFrame(columns, payment),
                                  mtr_report |-> DataFrame(UploadMtrColumns, mtr)]]
    /\ db_ok \in [{1} -> [1..MaxCommits(2 * MaxUploadRows) -> BOOLEAN]]

SpecUpload == InitUpload /\ [][NextUpload]_vars

\* Two requests, each with a payment report of one row and an MTR report of
\* one row of its own, every commit accepted; served by one process or by one
\* process each.
InitConcurrent ==
    /\ Arrived({1, 2})
    /\ deployment \in {"one process", "processes"}
    /\ uploaded =
          [r \in {1, 2} |->
              [payment_report |->
                   DataFrame(<<"date/time", "type", "order id", "description", "total">>,
                             CHOOSE rows \in UploadedPayments(
                                 r, <<"date/time", "type", "order id",
                                      "description", "total">>, 1) :
                                 rows[1]["total"] = Num(20)),
               mtr_report |->
                   DataFrame(UploadMtrColumns,
                             CHOOSE rows \in UploadedMtrs(r, 1) :
                                 rows[1]["Invoice Amount"] = Num(100))]]
    /\ db_ok = [r \in {1, 2} |-> [k \in 1..MaxCommits(2 * MaxUploadRows) |-> TRUE]]

SpecConcurrent == InitConcurrent /\ [][NextUpload]_vars

(***************************************************************************)
(* Claims about the payment normalizer, checked under SpecPayment          *)
(***************************************************************************)
\* The columns of the input report that find_column resolves.
InputTypeColumn ==
    CHOOSE c \in Range(payment_data.columns) : lower(c) = "type"
InputDescriptionColumn ==
    CHOOSE c \in Range(payment_data.columns) : lower(c) = "description"

PaymentReturned == pc # "payment" /\ processed_payment.ok

Trimmed(cell) == IF is_str(cell) THEN Str(strip(val(cell))) ELSE cell

\* Input rows whose trimmed type holds "transfer" in some casing.
HoldsTransfer(row) ==
    /\ is_str(row[InputTypeColumn])
    /\ contains(lower(strip(val(row[InputTypeColumn]))), "transfer")

KeptPositions ==
    {i \in DOMAIN payment_data.rows : ~HoldsTransfer(payment_data.rows[i])}

\* The input row that the j-th output row comes from, should the output be
\* the kept rows in their original order.
SourceRow(j) == payment_data.rows[Nth(KeptPositions, j)]

TypeKeysLower ==
    {"adjustment", "fba inventory fee", "fulfilment fee refund", "service fee"}
DescriptionKeysLower ==
    {"adjustment", "fba inventory fee", "fulfillment fee refund", "service fee",
     "fba inventory reimbursement - customer service issue"}

ExpectedPaymentType(cell) ==
    IF is_str(cell) /\ lower(val(cell)) = "refund" THEN Str("Return")
    ELSE IF is_str(cell) /\ lower(val(cell)) \in TypeKeysLower THEN Str("Order")
    ELSE cell

ExpectedDescription(cell) ==
    IF is_str(cell) /\ lower(val(cell)) \in DescriptionKeysLower THEN Str("Order")
    ELSE cell

\* C9: in every row that process_payment_report keeps, "Payment Type" is Return
\* when the trimmed original type is "refund" in any casing, Order when it is
\* one of the four type keys in any casing, and the trimmed original otherwise;
\* the description is Order when the trimmed original is one of the five
\* description keys in any casing and the trimmed original otherwise;
\* "Transaction Type" is Payment; and no Payment Type is "refund" in any casing.
C9_KeptRowsRemapped ==
    PaymentReturned =>
        LET out == processed_payment.value.rows
        IN  \A j \in DOMAIN out :
               /\ j <= Cardinality(KeptPositions)
               /\ out[j]["Payment Type"] =
                      ExpectedPaymentType(Trimmed(SourceRow(j)[InputTypeColumn]))
               /\ out[j][InputDescriptionColumn] =
                      ExpectedDescription(Trimmed(SourceRow(j)[InputDescriptionColumn]))
               /\ out[j]["Transaction Type"] = Str("Payment")
               /\ ~(/\ is_str(out[j]["Payment Type"])
                    /\ lower(val(out[j]["Payment Type"])) = "refund")

\* C9 witness: a returned table with a row that was " REFUND\n" and is Return,
\* and a row that was "adjustment" with description "SERVICE FEE" and is Order
\* in both columns.
C9_Witness ==
    /\ PaymentReturned
    /\ Len(payment_data.rows) = 2
    /\ payment_data.rows[1][InputTypeColumn] = Str(" REFUND\n")
    /\ payment_data.rows[1][InputDescriptionColumn] = Str("Refund")
    /\ payment_data.rows[2][InputTypeColumn] = Str("adjustment")
    /\ payment_data.rows[2][InputDescriptionColumn] = Str("SERVICE FEE")
    /\ Len(processed_payment.value.rows) = 2
    /\ processed_payment.value.rows[1]["Payment Type"] = Str("Return")
    /\ processed_payment.value.rows[1][InputDescriptionColumn] = Str("Refund")
    /\ processed_payment.value.rows[2]["Payment Type"] = Str("Order")
    /\ processed_payment.value.rows[2][InputDescriptionColumn] = Str("Order")

\* C10: applying process_payment_report to the table it returned succeeds and
\* returns that table unchanged.
C10_Idempotent ==
    pc = "payment reprocessed" =>
        /\ reprocessed_payment.ok
        /\ reprocessed_payment.value = processed_payment.value

(***************************************************************************)
(* Claims about the MTR normalizer, checked under SpecMtr                  *)
(***************************************************************************)
MtrReturned == pc = "mtr processed" /\ processed_mtr.ok

\* The positions of the input rows whose transaction type is not "Cancel".
MtrKeptPositions ==
    {i \in DOMAIN mtr_data.rows :
        mtr_data.rows[i]["Transaction Type"] # <<"s", "Cancel">>}

ExpectedTransactionType(cell) ==
    IF cell \in {<<"s", "Refund">>, <<"s", "FreeReplacement">>}
    THEN <<"s", "Return">> ELSE cell

\* C11: process_mtr_report returns exactly the input rows whose "Transaction
\* Type" is not the exact string "Cancel", values differing in case or
\* whitespace kept, in their original order, with "Transaction Type" set to
\* "Return" where it was exactly "Refund" or "FreeReplacement" and unchanged
\* otherwise, and with all other columns unchanged.
C11_CancelDroppedExactRemap ==
    MtrReturned =>
        LET out == processed_mtr.value.rows
        IN  /\ processed_mtr.value.columns = mtr_data.columns
            /\ Len(out) = Cardinality(MtrKeptPositions)
            /\ \A j \in DOMAIN out :
                  LET row == mtr_data.rows[Nth(MtrKeptPositions, j)]
                  IN  \A c \in Range(mtr_data.columns) :
                         out[j][c] = IF c = "Transaction Type"
                                     THEN ExpectedTransactionType(row[c])
                                     ELSE row[c]

\* C11 witness: a report whose first row is " Cancel " and is kept as it is,
\* and whose second row is "Refund" and is returned as "Return".
C11_Witness ==
    /\ MtrReturned
    /\ Len(mtr_data.rows) = 2
    /\ mtr_data.rows[1]["Transaction Type"] = Str(" Cancel ")
    /\ mtr_data.rows[2]["Transaction Type"] = Str("Refund")
    /\ Len(processed_mtr.value.rows) = 2
    /\ processed_mtr.value.rows[1]["Transaction Type"] = Str(" Cancel ")
    /\ processed_mtr.value.rows[2]["Transaction Type"] = Str("Return")
    /\ processed_mtr.value.rows[2]["Order Id"] = mtr_data.rows[2]["Order Id"]

(***************************************************************************)
(* Claims about insert_exemplar_data, checked under SpecInsert             *)
(***************************************************************************)
InsertReturned == pc = "inserted" /\ inserted.ok

AllCommitsAccepted == \A k \in DOMAIN commit_ok : commit_ok[k]

GapRow(row) == \A c \in DOMAIN row : row[c] = NaN

\* A row whose conversion fails: an amount cell holding text that is no number.
FailingRow(row) ==
    row["Invoice Amount"] = <<"s", "abc">> \/ row["Net Amount"] = <<"s", "abc">>

Persisted(row) ==
    \E k \in DOMAIN inserted.committed :
        inserted.committed[k].order_id = row["Order Id"]

\* C13: when insert_exemplar_data returns, every row that is neither failing
\* nor all-null is persisted, the success count is the number of rows
\* persisted, and the failure count is the number of failing rows.  Stated for
\* the calls whose commits the database all accepts.
C13_OnlyFailingRowLost ==
    (InsertReturned /\ AllCommitsAccepted) =>
        LET rows == exemplar_file.rows
        IN  /\ \A i \in DOMAIN rows :
                  (~FailingRow(rows[i]) /\ ~GapRow(rows[i])) => Persisted(rows[i])
            /\ inserted.successful_inserts = Len(inserted.committed)
            /\ inserted.failed_inserts =
                  Cardinality({i \in DOMAIN rows : FailingRow(rows[i])})

\* The part of C13 that the code keeps: the failure count, and no failing row
\* persisted.
C13_FailuresCounted ==
    (InsertReturned /\ AllCommitsAccepted) =>
        LET rows == exemplar_file.rows
        IN  /\ inserted.failed_inserts =
                  Cardinality({i \in DOMAIN rows : FailingRow(rows[i])})
            /\ \A i \in DOMAIN rows : FailingRow(rows[i]) => ~Persisted(rows[i])

\* The value the source cell of an amount stands for.
SourceAmount(cell) ==
    CASE cell = <<"s", "1,250">> -> <<"n", 1250>>
      [] OTHER -> cell

\* C18: for every persisted exemplar row, invoice_amount and net_amount are
\* null exactly when the source cell is absent and equal the source value
\* otherwise, be it a number or a numeric string; no all-null row is persisted.
C18_AmountsPreserved ==
    pc = "inserted" =>
        /\ \A k \in DOMAIN inserted.committed :
              \E i \in DOMAIN exemplar_file.rows :
                 LET row == exemplar_file.rows[i]
                     e == inserted.committed[k]
                 IN  /\ ~GapRow(row)
                     /\ e.order_id = row["Order Id"]
                     /\ e.invoice_amount = SourceAmount(row["Invoice Amount"])
                     /\ e.net_amount = SourceAmount(row["Net Amount"])

\* The part of C18 that the code keeps: a persisted amount is the value of the
\* source's numeric string, and no all-null row is persisted.
C18_StringAmountsPreserved ==
    pc = "inserted" =>
        /\ Len(inserted.committed)
              <= Cardinality({i \in DOMAIN exemplar_file.rows :
                                 ~GapRow(exemplar_file.rows[i])})
        /\ \A k \in DOMAIN inserted.committed :
              \E i \in DOMAIN exemplar_file.rows :
                 LET row == exemplar_file.rows[i]
                     e == inserted.committed[k]
                 IN  /\ ~GapRow(row)
                     /\ e.order_id = row["Order Id"]
                     /\ e.invoice_amount # NaN =>
                            e.invoice_amount = SourceAmount(row["Invoice Amount"])
                     /\ e.net_amount # NaN =>
                            e.net_amount = SourceAmount(row["Net Amount"])

(***************************************************************************)
(* Claims about upload_files, checked under SpecUpload and SpecConcurrent  *)
(***************************************************************************)
Responded(r) == upload_pc[r] = "done"
Succeeded(r) == Responded(r) /\ response[r].status_code = 200
Failed(r) == Responded(r) /\ response[r].status_code = 400

\* The positions of the columns of r's payment report named as given, in any
\* casing.
ColumnsNamed(r, name) ==
    {k \in DOMAIN uploaded[r].payment_report.columns :
        lower(uploaded[r].payment_report.columns[k]) = name}

MissingRequiredColumn(r) ==
    ColumnsNamed(r, "type") = {} \/ ColumnsNamed(r, "description") = {}

NothingPersisted(r) == \A t \in Tables : persisted[r][t] = <<>>

\* C12: when the payment report has no column named "type" or none named
\* "description" in any casing, process_payment_report fails, the upload is
\* rejected with an error, no output file is written and no row is persisted
\* for it; otherwise the type column is the first such column in column order,
\* which is the one renamed to "Payment Type".
C12_MissingColumnRejected ==
    pc = "upload" =>
        \A r \in requests :
            /\ MissingRequiredColumn(r) =>
                  /\ upload_pc[r] \in {"read payment", "read mtr", "process payment",
                                       "done"}
                  /\ Responded(r) => Failed(r)
                  /\ written[r] = {}
                  /\ \A path \in OutputPaths : files[path] = NoFile
                  /\ NothingPersisted(r)
            /\ (~MissingRequiredColumn(r) /\ local[r].processed_payment # <<>>) =>
                  LET first == CHOOSE k \in ColumnsNamed(r, "type") :
                                   \A j \in ColumnsNamed(r, "type") : k <= j
                      before == uploaded[r].payment_report.columns
                      after == local[r].processed_payment.columns
                  IN  \A k \in DOMAIN before :
                         after[k] = IF k = first THEN "Payment Type" ELSE before[k]

\* C12 witness: a request whose payment report has rows and no type column
\* has been rejected, with no file written.
C12_Witness ==
    /\ pc = "upload"
    /\ ColumnsNamed(1, "type") = {}
    /\ Len(uploaded[1].payment_report.rows) = 2
    /\ Len(uploaded[1].mtr_report.rows) = 2
    /\ Failed(1)
    /\ written[1] = {}
    /\ NothingPersisted(1)

\* C14: an upload that fails leaves none of its rows persisted.
C14_AllOrNothing ==
    pc = "upload" =>
        \A r \in requests : Failed(r) => NothingPersisted(r)

\* What does hold of a failed upload: the rows that remain were committed
\* before the failing commit, in whole batches.
C14_OnlyWholeBatchesRemain ==
    pc = "upload" =>
        \A r \in requests :
            Failed(r) => Len(persisted[r]["exemplar_report"]) % BatchSize = 0

\* C15: an upload that returns success has run normalize (both reports),
\* merge, categorize, then tolerance analysis and empty-order aggregation, in
\* that order, and has persisted the categorized rows of its merged stream.
C15_AllStagesRun ==
    pc = "upload" =>
        \A r \in requests :
            Succeeded(r) =>
                /\ \E n1, n2, m, c, t, e \in DOMAIN stages[r] :
                      /\ stages[r][n1] = "normalize payment"
                      /\ stages[r][n2] = "normalize mtr"
                      /\ stages[r][m] = "merge"
                      /\ stages[r][c] = "categorize"
                      /\ stages[r][t] = "tolerance analysis"
                      /\ stages[r][e] = "empty-order aggregation"
                      /\ n1 < m /\ n2 < m /\ m < c /\ c < t /\ c < e
                /\ Len(persisted[r]["processed_data"])
                      = Len(uploaded[r].mtr_report.rows)
                        + Len(uploaded[r].payment_report.rows)

\* What does hold of a successful upload: it has normalized both reports,
\* merged them and inserted the exemplar rows, and nothing else.
C15_StagesActuallyRun ==
    pc = "upload" =>
        \A r \in requests :
            Succeeded(r) =>
                /\ stages[r] = <<"normalize payment", "normalize mtr", "merge",
                                 "persist exemplar">>
                /\ \A t \in Tables \ {"exemplar_report"} : persisted[r][t] = <<>>

\* The order ids of the two reports of request r.
OwnOrderIds(r) ==
    {uploaded[r].payment_report.rows[i]["order id"] :
         i \in DOMAIN uploaded[r].payment_report.rows}
    \cup {uploaded[r].mtr_report.rows[i]["Order Id"] :
              i \in DOMAIN uploaded[r].mtr_report.rows}

DerivedFromOwnReports(r) ==
    /\ Len(persisted[r]["exemplar_report"]) = Cardinality(OwnOrderIds(r))
    /\ \A k \in DOMAIN persisted[r]["exemplar_report"] :
          persisted[r]["exemplar_report"][k].order_id \in OwnOrderIds(r)

\* C16: in every interleaving of two uploads, in one process or across
\* processes, the rows a request persists come from its own two reports.
C16_UploadsIndependent ==
    pc = "upload" =>
        \A r \in requests : Succeeded(r) => DerivedFromOwnReports(r)

\* What does hold: uploads served by one process are independent.
C16_IndependentInOneProcess ==
    (pc = "upload" /\ deployment = "one process") =>
        \A r \in requests : Succeeded(r) => DerivedFromOwnReports(r)

(***************************************************************************)
(* Claims about the link from tolerance results to processed rows,         *)
(* checked under SpecStore                                                 *)
(***************************************************************************)
\* The tolerance analysis has run on rows that store_data_in_db has stored.
LinkedRun == pc = "tolerance analyzed" /\ id_sequence # <<>>

\* The row of the table that the k-th stored result was computed from.
ResultRow(k) == Nth(Analyzable, k)

\* C17: every stored ToleranceResult references, through processed_data_id,
\* the id generated for the processed row of the record it was computed from:
\* never null and never the id of another record's row, also when order ids
\* repeat or are absent.
C17_LinkedToOwnProcessedRow ==
    LinkedRun =>
        \A k \in DOMAIN tolerance_analysis.table :
            /\ tolerance_analysis.table[k].processed_data_id # None
            /\ tolerance_analysis.table[k].processed_data_id
                   = Num(processed_data[ResultRow(k)].id)

\* What does hold: a stored result's reference is null or the id of a
\* processed row with the same order id, never an id generated for a merged
\* row, and no two stored results share one.
C17_ProcessedIdOfSameOrderId ==
    LinkedRun =>
        /\ \A k \in DOMAIN tolerance_analysis.table :
              LET ref == tolerance_analysis.table[k].processed_data_id
              IN  \/ ref = None
                  \/ \E i \in DOMAIN processed_data :
                        /\ ref = Num(processed_data[i].id)
                        /\ processed_data[i].row["order_id"]
                               = tolerance_df.rows[ResultRow(k)]["order_id"]
        /\ \A k, l \in DOMAIN tolerance_analysis.table :
              (k # l /\ tolerance_analysis.table[k].processed_data_id # None)
                  => tolerance_analysis.table[k].processed_data_id
                         # tolerance_analysis.table[l].processed_data_id

=============================================================================
